---- MODULE Spec2Model ----
(***************************************************************************)
(* A model of the UltraThink session state machine and assumption ledger   *)
(* (plugins/ultrathink/skills/ultrathink/ultrathink.py).                     *)
(*                                                                         *)
(* Data conventions                                                        *)
(*   - Python None is the empty tuple None; a present optional value v is  *)
(*     the one-element tuple Some(v).                                      *)
(*   - A Python string is the sequence of its characters, each a          *)
(*     one-character TLA+ string ("s:A1" is <<"s", ":", "A", "1">>); the   *)
(*     fixed fragments of a message are one element each.                  *)
(*   - A float confidence is counted in tenths (0.7 is 7, 1.0 is 10).      *)
(*   - A dict is the sequence of its items in insertion order.             *)
(*   - Python objects that are shared between the assumption registry and  *)
(*     a thought's assumptions list are marked shared (see Entry).         *)
(***************************************************************************)
EXTENDS Integers, Sequences, FiniteSets, TLC

VARIABLES
    session,    \* a stand-alone ThinkingSession driven by add_thought directly
    cache,      \* UltraThinkService._sessions of every service instance
    disk,       \* the session files under the sessions directory
    last        \* the last call: its input, the state before it, its outcome

vars == <<session, cache, disk, last>>

---------------------------------------------------------------------------
(* Bounds of the model *)

MaxThoughts == 2        \* longest thought log explored; thought numbers are 1..MaxThoughts
MaxCalls == 3           \* most requests and file damages in one run of the services

---------------------------------------------------------------------------
(* Optional values and sequences *)

None == << >>
Some(v) == << v >>
Val(o) == o[1]

InSeq(x, seq) == \E i \in 1..Len(seq) : seq[i] = x

\* the truth value Python gives an optional list: None and [] are false
Truthy(optlist) == optlist # None /\ Len(Val(optlist)) > 0

RECURSIVE SortedSeq(_)
SortedSeq(S) ==
    IF S = {} THEN << >>
    ELSE LET m == CHOOSE x \in S : \A y \in S : x <= y
         IN  << m >> \o SortedSeq(S \ {m})

---------------------------------------------------------------------------
(* Assumption model *)

DefaultConfidence == 10
RiskThreshold == 7

\* Assumption(**data): the defaults of the fields the data omits
Assumption(data) ==
    [ id                  |-> data.id,
      text                |-> data.text,
      confidence          |-> IF data.confidence = None THEN DefaultConfidence
                              ELSE Val(data.confidence),
      critical            |-> IF data.critical = None THEN TRUE ELSE Val(data.critical),
      verifiable          |-> IF data.verifiable = None THEN FALSE ELSE Val(data.verifiable),
      evidence            |-> data.evidence,
      verification_status |-> data.verification_status ]

is_verified(a) ==
    a.verification_status \in { Some("verified_true"), Some("verified_false") }

is_falsified(a) == a.verification_status = Some("verified_false")

\* mutant: a confidence of exactly 0.7 counts as low
is_risky_at_threshold(a) ==
    /\ a.critical
    /\ a.confidence <= RiskThreshold
    /\ a.verification_status # Some("verified_true")

is_risky(a) ==
    /\ a.critical
    /\ a.confidence < RiskThreshold
    /\ a.verification_status # Some("verified_true")

\* An element of Thought.assumptions: an Assumption object.  shared tells that the
\* object is the very object the registry holds under a.id (add_thought stores the
\* thought's own object on first declaration), so its current field values are the
\* registry's; a keeps the field values the object had when the call ended.
Entry(a) == [ shared |-> FALSE, a |-> a ]

---------------------------------------------------------------------------
(* Thought model *)

is_branch(t) ==
    /\ t.branch_from_thought # None
    /\ Val(t.branch_from_thought) # 0
    /\ t.branch_id # None
    /\ Val(t.branch_id) # << >>

is_final(t) == ~ t.next_thought_needed

Max(a, b) == IF a >= b THEN a ELSE b

\* mutant: the total is set to the thought's number, lowered if need be
auto_adjust_total_to_number(t) ==
    [ t EXCEPT !.total_thoughts = t.thought_number ]

\* Thought.auto_adjust_total
auto_adjust_total(t) ==
    [ t EXCEPT !.total_thoughts = Max(t.thought_number, t.total_thoughts) ]

NoError == [ kind |-> "ok", number |-> None, id |-> << >>, available |-> << >> ]

\* The value given for a list field (assumptions, depends_on_assumptions,
\* invalidates_assumptions) of a Thought or a ThoughtRequest: None, the JSON text of a
\* list, one of the texts "" and "null", or a Python list.
JsonText(list) == Some([ form |-> "json", list |-> list ])
PyList(list) == Some([ form |-> "list", list |-> list ])
NullText == Some([ form |-> "null", list |-> << >> ])

ListTypeError == [ NoError EXCEPT !.kind = "type_error" ]

\* _parse_json_list as it would be if the list test of line 123 came first
parse_json_list_returns_lists(value) ==
    IF value = None THEN [ err |-> NoError, value |-> None ]
    ELSE IF Val(value).form = "null" THEN [ err |-> NoError, value |-> None ]
    ELSE [ err |-> NoError, value |-> Some(Val(value).list) ]

\* _parse_json_list, lines 121-128: None, "" and "null" give None and the JSON text of
\* a list gives the list; a list is looked up in the set {"", "null"} first (line
\* 121), which raises TypeError (unhashable type) before line 123 is reached
parse_json_list(value) ==
    IF value = None THEN [ err |-> NoError, value |-> None ]
    ELSE IF Val(value).form = "list" THEN [ err |-> ListTypeError, value |-> None ]
    ELSE IF Val(value).form = "null" THEN [ err |-> NoError, value |-> None ]
    ELSE [ err |-> NoError, value |-> Some(Val(value).list) ]

ListFields == { "assumptions", "depends_on_assumptions", "invalidates_assumptions" }

\* the exception the "before" validators of the three list fields let escape from
\* Thought(**data) or ThoughtRequest(**data), NoError if none
ListFieldsError(data) ==
    IF \E f \in ListFields : parse_json_list(data[f]).err.kind # "ok"
    THEN ListTypeError
    ELSE NoError

\* the keyword arguments with the three list fields as their validators return them
ParsedLists(data) ==
    [ f \in DOMAIN data |->
        IF f \in ListFields THEN parse_json_list(data[f]).value ELSE data[f] ]

\* every raw assumption dict of the parsed list becomes a new Assumption object
WithAssumptionObjects(parsed) ==
    IF parsed.assumptions = None THEN parsed
    ELSE [ parsed EXCEPT !.assumptions =
               Some([ i \in 1..Len(Val(parsed.assumptions)) |->
                        Entry(Assumption(Val(parsed.assumptions)[i])) ]) ]

\* Thought(**data), for data that ListFieldsError lets through
Thought(data) == WithAssumptionObjects(ParsedLists(data))

\* ThoughtRequest(**data), for data that ListFieldsError lets through
ThoughtRequest(data) == ParsedLists(data)

\* mutant: the numbers present are listed from the highest down
ReferenceError_descending(kind, n, existing) ==
    [ kind |-> kind, number |-> Some(n), id |-> << >>,
      available |-> [ i \in 1..Len(SortedSeq(existing)) |->
                        SortedSeq(existing)[Len(SortedSeq(existing)) + 1 - i] ] ]

ReferenceError(kind, n, existing) ==
    [ kind |-> kind, number |-> Some(n), id |-> << >>,
      available |-> SortedSeq(existing) ]

AssumptionError(kind, id) ==
    [ kind |-> kind, number |-> None, id |-> id, available |-> << >> ]

RevisionDangling(t, existing_thought_numbers) ==
    /\ t.is_revision = Some(TRUE)
    /\ t.revises_thought # None
    /\ Val(t.revises_thought) \notin existing_thought_numbers

BranchDangling(t, existing_thought_numbers) ==
    /\ is_branch(t)
    /\ t.branch_from_thought # None
    /\ Val(t.branch_from_thought) \notin existing_thought_numbers

\* mutant: only revisions are validated, a branch never is
validate_references_revision_only(t, existing_thought_numbers) ==
    IF RevisionDangling(t, existing_thought_numbers)
    THEN IF existing_thought_numbers = {}
         THEN ReferenceError("revise_no_thoughts", Val(t.revises_thought), {})
         ELSE ReferenceError("revise_not_found", Val(t.revises_thought),
                             existing_thought_numbers)
    ELSE NoError

\* mutant: the number of the thought being added counts as existing
validate_references_own_number(t, existing_thought_numbers) ==
    LET numbers == existing_thought_numbers \cup { t.thought_number }
    IN  IF RevisionDangling(t, numbers)
        THEN ReferenceError("revise_not_found", Val(t.revises_thought), numbers)
        ELSE IF BranchDangling(t, numbers)
        THEN ReferenceError("branch_not_found", Val(t.branch_from_thought), numbers)
        ELSE NoError

\* Thought.validate_references: the ValueError it raises, or NoError
validate_references(t, existing_thought_numbers) ==
    IF RevisionDangling(t, existing_thought_numbers)
    THEN IF existing_thought_numbers = {}
         THEN ReferenceError("revise_no_thoughts", Val(t.revises_thought), {})
         ELSE ReferenceError("revise_not_found", Val(t.revises_thought),
                             existing_thought_numbers)
    ELSE IF BranchDangling(t, existing_thought_numbers)
    THEN IF existing_thought_numbers = {}
         THEN ReferenceError("branch_no_thoughts", Val(t.branch_from_thought), {})
         ELSE ReferenceError("branch_not_found", Val(t.branch_from_thought),
                             existing_thought_numbers)
    ELSE NoError

---------------------------------------------------------------------------
(* ThinkingSession *)

HasColon(s) == \E i \in 1..Len(s) : s[i] = ":"

FirstColon(s) ==
    CHOOSE i \in 1..Len(s) : s[i] = ":" /\ \A j \in 1..(i - 1) : s[j] # ":"

parse_assumption_id(assumption_id) ==
    IF HasColon(assumption_id)
    THEN [ session_id |-> Some(SubSeq(assumption_id, 1, FirstColon(assumption_id) - 1)),
           local_id   |-> SubSeq(assumption_id, FirstColon(assumption_id) + 1,
                                 Len(assumption_id)) ]
    ELSE [ session_id |-> None, local_id |-> assumption_id ]

NewSession ==
    [ thoughts               |-> << >>,
      branches               |-> << >>,
      assumptions            |-> << >>,
      unresolved_refs        |-> << >>,
      cross_session_warnings |-> << >> ]

\* dict operations on the registry (a sequence of Assumption records, keyed by id)
Keys(reg) == { reg[i].id : i \in 1..Len(reg) }
HasKey(reg, id) == \E i \in 1..Len(reg) : reg[i].id = id
IndexOf(reg, id) == CHOOSE i \in 1..Len(reg) : reg[i].id = id
Get(reg, id) == reg[IndexOf(reg, id)]

thought_count(s) == Len(s.thoughts)
branch_ids(s) == [ i \in 1..Len(s.branches) |-> s.branches[i].id ]
ThoughtNumbers(s) == { s.thoughts[i].thought_number : i \in 1..Len(s.thoughts) }

risky_assumptions(s) ==
    LET risky == SelectSeq(s.assumptions, is_risky)
    IN  [ i \in 1..Len(risky) |-> risky[i].id ]

falsified_assumptions(s) ==
    LET falsified == SelectSeq(s.assumptions, is_falsified)
    IN  [ i \in 1..Len(falsified) |-> falsified[i].id ]

\* the current field values of an element of a logged thought's assumptions list
View(s, e) == IF e.shared THEN Get(s.assumptions, e.a.id) ELSE e.a

cross_session_warning(assumption_id) ==
    << "Cannot invalidate cross-session assumption " >> \o assumption_id
        \o << ": cross-session invalidation not supported" >>

\* mutant: an unresolved scoped id is recorded without looking whether it is recorded
RECURSIVE depends_on_loop_no_dedupe(_, _, _, _)
depends_on_loop_no_dedupe(s, ids, validated_cross_session_refs, i) ==
    IF i > Len(ids) THEN [ err |-> NoError, s |-> s ]
    ELSE LET assumption_id == ids[i]
             session_id == parse_assumption_id(assumption_id).session_id
         IN  IF session_id = None
             THEN IF ~ HasKey(s.assumptions, assumption_id)
                  THEN [ err |-> AssumptionError("depend_not_found", assumption_id),
                         s   |-> s ]
                  ELSE depends_on_loop_no_dedupe(s, ids, validated_cross_session_refs, i + 1)
             ELSE IF /\ Truthy(validated_cross_session_refs)
                     /\ InSeq(assumption_id, Val(validated_cross_session_refs))
             THEN depends_on_loop_no_dedupe(s, ids, validated_cross_session_refs, i + 1)
             ELSE depends_on_loop_no_dedupe(
                      [ s EXCEPT !.unresolved_refs = Append(@, assumption_id) ],
                      ids, validated_cross_session_refs, i + 1)

\* add_thought, lines 449-466: the loop over thought.depends_on_assumptions
RECURSIVE depends_on_loop(_, _, _, _)
depends_on_loop(s, ids, validated_cross_session_refs, i) ==
    IF i > Len(ids) THEN [ err |-> NoError, s |-> s ]
    ELSE LET assumption_id == ids[i]
             session_id == parse_assumption_id(assumption_id).session_id
         IN  IF session_id = None
             THEN IF ~ HasKey(s.assumptions, assumption_id)
                  THEN [ err |-> AssumptionError("depend_not_found", assumption_id),
                         s   |-> s ]
                  ELSE depends_on_loop(s, ids, validated_cross_session_refs, i + 1)
             ELSE IF /\ Truthy(validated_cross_session_refs)
                     /\ InSeq(assumption_id, Val(validated_cross_session_refs))
             THEN depends_on_loop(s, ids, validated_cross_session_refs, i + 1)
             ELSE IF ~ InSeq(assumption_id, s.unresolved_refs)
             THEN depends_on_loop(
                      [ s EXCEPT !.unresolved_refs = Append(@, assumption_id) ],
                      ids, validated_cross_session_refs, i + 1)
             ELSE depends_on_loop(s, ids, validated_cross_session_refs, i + 1)

\* mutant: a record that is verified_false keeps that status when it is re-declared
update_mutable_fields_falsified_stays(existing, assumption) ==
    [ existing EXCEPT
        !.confidence          = assumption.confidence,
        !.verifiable          = assumption.verifiable,
        !.evidence            = assumption.evidence,
        !.verification_status = IF existing.verification_status = Some("verified_false")
                                THEN existing.verification_status
                                ELSE assumption.verification_status ]

\* mutant: the verification status of the stored record is kept
update_mutable_fields_keep_status(existing, assumption) ==
    [ existing EXCEPT !.confidence = assumption.confidence,
                      !.verifiable = assumption.verifiable,
                      !.evidence   = assumption.evidence ]

\* lines 485-488: the four mutable fields are overwritten in place
update_mutable_fields(existing, assumption) ==
    [ existing EXCEPT !.confidence          = assumption.confidence,
                      !.verifiable          = assumption.verifiable,
                      !.evidence            = assumption.evidence,
                      !.verification_status = assumption.verification_status ]

\* mutant: only the text is compared, the critical flag is not
immutable_field_error_text_only(existing, assumption) ==
    IF existing.text # assumption.text
    THEN AssumptionError("text_mismatch", assumption.id)
    ELSE NoError

\* lines 472-484: the ValueError of a re-declaration that changes text or critical
immutable_field_error(existing, assumption) ==
    IF existing.text # assumption.text
    THEN AssumptionError("text_mismatch", assumption.id)
    ELSE IF existing.critical # assumption.critical
    THEN AssumptionError("critical_mismatch", assumption.id)
    ELSE NoError

\* add_thought, lines 468-490: the loop over thought.assumptions
RECURSIVE assumptions_loop(_, _, _)
assumptions_loop(s, entries, i) ==
    IF i > Len(entries) THEN [ err |-> NoError, s |-> s, entries |-> entries ]
    ELSE LET assumption == entries[i].a
         IN  IF HasKey(s.assumptions, assumption.id)
             THEN LET k == IndexOf(s.assumptions, assumption.id)
                      existing == s.assumptions[k]
                      e == immutable_field_error(existing, assumption)
                  IN  IF e.kind # "ok"
                      THEN [ err |-> e, s |-> s, entries |-> entries ]
                      ELSE assumptions_loop(
                               [ s EXCEPT !.assumptions[k] =
                                     update_mutable_fields(existing, assumption) ],
                               entries, i + 1)
             ELSE assumptions_loop(
                      [ s EXCEPT !.assumptions = Append(@, assumption) ],
                      [ entries EXCEPT ![i].shared = TRUE ], i + 1)

\* mutant: an assumption already verified true is left alone
invalidate_unless_verified_true(s, assumption_id) ==
    IF Get(s.assumptions, assumption_id).verification_status = Some("verified_true")
    THEN s
    ELSE [ s EXCEPT
             !.assumptions[IndexOf(s.assumptions, assumption_id)].verification_status =
                 Some("verified_false") ]

\* lines 503-505
invalidate(s, assumption_id) ==
    [ s EXCEPT !.assumptions[IndexOf(s.assumptions, assumption_id)].verification_status =
                   Some("verified_false") ]

\* mutant: a scoped id whose local part is a key of this registry is invalidated here
RECURSIVE invalidates_loop_applies_local_part(_, _, _)
invalidates_loop_applies_local_part(s, ids, i) ==
    IF i > Len(ids) THEN [ err |-> NoError, s |-> s ]
    ELSE LET assumption_id == ids[i]
             parsed == parse_assumption_id(assumption_id)
             warned == [ s EXCEPT !.cross_session_warnings =
                           Append(@, cross_session_warning(assumption_id)) ]
         IN  IF parsed.session_id = None
             THEN IF ~ HasKey(s.assumptions, assumption_id)
                  THEN [ err |-> AssumptionError("invalidate_not_found", assumption_id),
                         s   |-> s ]
                  ELSE invalidates_loop_applies_local_part(
                           invalidate(s, assumption_id), ids, i + 1)
             ELSE IF HasKey(s.assumptions, parsed.local_id)
             THEN invalidates_loop_applies_local_part(
                      invalidate(warned, parsed.local_id), ids, i + 1)
             ELSE invalidates_loop_applies_local_part(warned, ids, i + 1)

\* add_thought, lines 492-511: the loop over thought.invalidates_assumptions
RECURSIVE invalidates_loop(_, _, _)
invalidates_loop(s, ids, i) ==
    IF i > Len(ids) THEN [ err |-> NoError, s |-> s ]
    ELSE LET assumption_id == ids[i]
             session_id == parse_assumption_id(assumption_id).session_id
         IN  IF session_id = None
             THEN IF ~ HasKey(s.assumptions, assumption_id)
                  THEN [ err |-> AssumptionError("invalidate_not_found", assumption_id),
                         s   |-> s ]
                  ELSE invalidates_loop(invalidate(s, assumption_id), ids, i + 1)
             ELSE invalidates_loop(
                      [ s EXCEPT !.cross_session_warnings =
                            Append(@, cross_session_warning(assumption_id)) ],
                      ids, i + 1)

\* mutant: nothing is appended to a log that holds a final thought
append_thought_unless_final(s, t) ==
    IF \E i \in 1..Len(s.thoughts) : ~ s.thoughts[i].next_thought_needed
    THEN s
    ELSE [ s EXCEPT !.thoughts = Append(s.thoughts, t) ]

\* mutant: the thought is put in front of the log
append_thought_in_front(s, t) ==
    LET bid == Val(t.branch_id)
        known == \E i \in 1..Len(s.branches) : s.branches[i].id = bid
        k == CHOOSE i \in 1..Len(s.branches) : s.branches[i].id = bid
    IN  [ s EXCEPT
            !.thoughts = << t >> \o @,
            !.branches =
                IF is_branch(t) /\ t.branch_id # None
                THEN IF known
                     THEN [ @ EXCEPT ![k].members = Append(@, 1) ]
                     ELSE Append(@, [ id |-> bid, members |-> << 1 >> ])
                ELSE @ ]

\* mutant: every thought that carries a branch_id is put into the branch index
append_thought_for_any_branch_id(s, t) ==
    LET pos == Len(s.thoughts) + 1
        bid == Val(t.branch_id)
        known == \E i \in 1..Len(s.branches) : s.branches[i].id = bid
        k == CHOOSE i \in 1..Len(s.branches) : s.branches[i].id = bid
    IN  [ s EXCEPT
            !.thoughts = Append(@, t),
            !.branches =
                IF t.branch_id # None /\ Val(t.branch_id) # << >>
                THEN IF known
                     THEN [ @ EXCEPT ![k].members = Append(@, pos) ]
                     ELSE Append(@, [ id |-> bid, members |-> << pos >> ])
                ELSE @ ]

\* lines 513-518: the thought is appended and, if a branch, indexed.  A branch's
\* members are the positions in the log of the Thought objects it holds.
append_thought(s, t) ==
    LET pos == Len(s.thoughts) + 1
        bid == Val(t.branch_id)
        known == \E i \in 1..Len(s.branches) : s.branches[i].id = bid
        k == CHOOSE i \in 1..Len(s.branches) : s.branches[i].id = bid
    IN  [ s EXCEPT
            !.thoughts = Append(@, t),
            !.branches =
                IF is_branch(t) /\ t.branch_id # None
                THEN IF known
                     THEN [ @ EXCEPT ![k].members = Append(@, pos) ]
                     ELSE Append(@, [ id |-> bid, members |-> << pos >> ])
                ELSE @ ]

\* the field values of the thought's Assumption objects when the call ends
Settle(s, t) ==
    IF t.assumptions = None THEN t
    ELSE [ t EXCEPT !.assumptions =
               Some([ i \in 1..Len(Val(t.assumptions)) |->
                        [ shared |-> Val(t.assumptions)[i].shared,
                          a      |-> View(s, Val(t.assumptions)[i]) ] ]) ]

\* mutant: the thought's assumptions are upserted before its dependencies are checked
add_thought_assumptions_first(s, thought, validated_cross_session_refs) ==
    LET t1 == auto_adjust_total(thought)
        e2 == validate_references(t1, ThoughtNumbers(s))
        r4 == IF Truthy(t1.assumptions)
              THEN assumptions_loop(s, Val(t1.assumptions), 1)
              ELSE [ err |-> NoError, s |-> s, entries |-> << >> ]
        t4 == IF Truthy(t1.assumptions)
              THEN [ t1 EXCEPT !.assumptions = Some(r4.entries) ]
              ELSE t1
        r3 == IF Truthy(t1.depends_on_assumptions)
              THEN depends_on_loop(r4.s, Val(t1.depends_on_assumptions),
                                   validated_cross_session_refs, 1)
              ELSE [ err |-> NoError, s |-> r4.s ]
        r5 == IF Truthy(t1.invalidates_assumptions)
              THEN invalidates_loop(r3.s, Val(t1.invalidates_assumptions), 1)
              ELSE [ err |-> NoError, s |-> r3.s ]
    IN  IF e2.kind # "ok" THEN [ err |-> e2, s |-> s, thought |-> t1 ]
        ELSE IF r4.err.kind # "ok"
        THEN [ err |-> r4.err, s |-> r4.s, thought |-> Settle(r4.s, t4) ]
        ELSE IF r3.err.kind # "ok"
        THEN [ err |-> r3.err, s |-> r3.s, thought |-> Settle(r3.s, t4) ]
        ELSE IF r5.err.kind # "ok"
        THEN [ err |-> r5.err, s |-> r5.s, thought |-> Settle(r5.s, t4) ]
        ELSE [ err     |-> NoError,
               s       |-> append_thought(r5.s, Settle(r5.s, t4)),
               thought |-> Settle(r5.s, t4) ]

\* mutant: the thought is appended and indexed before its invalidations are applied
add_thought_appends_before_invalidating(s, thought, validated_cross_session_refs) ==
    LET t1 == auto_adjust_total(thought)
        e2 == validate_references(t1, ThoughtNumbers(s))
        r3 == IF Truthy(t1.depends_on_assumptions)
              THEN depends_on_loop(s, Val(t1.depends_on_assumptions),
                                   validated_cross_session_refs, 1)
              ELSE [ err |-> NoError, s |-> s ]
        r4 == IF Truthy(t1.assumptions)
              THEN assumptions_loop(r3.s, Val(t1.assumptions), 1)
              ELSE [ err |-> NoError, s |-> r3.s, entries |-> << >> ]
        t4 == IF Truthy(t1.assumptions)
              THEN [ t1 EXCEPT !.assumptions = Some(r4.entries) ]
              ELSE t1
        s4 == append_thought(r4.s, t4)
        r5 == IF Truthy(t1.invalidates_assumptions)
              THEN invalidates_loop(s4, Val(t1.invalidates_assumptions), 1)
              ELSE [ err |-> NoError, s |-> s4 ]
        settled(s5) == [ s5 EXCEPT !.thoughts[Len(s5.thoughts)] = Settle(s5, t4) ]
    IN  IF e2.kind # "ok" THEN [ err |-> e2, s |-> s, thought |-> t1 ]
        ELSE IF r3.err.kind # "ok"
        THEN [ err |-> r3.err, s |-> r3.s, thought |-> t1 ]
        ELSE IF r4.err.kind # "ok"
        THEN [ err |-> r4.err, s |-> r4.s, thought |-> Settle(r4.s, t4) ]
        ELSE [ err |-> r5.err, s |-> settled(r5.s), thought |-> Settle(r5.s, t4) ]

\* ThinkingSession.add_thought: err is the ValueError raised (NoError if none), s the
\* session after the call (partial effects of an aborted call included), thought the
\* Thought object after the call
add_thought(s, thought, validated_cross_session_refs) ==
    LET t1 == auto_adjust_total(thought)
        e2 == validate_references(t1, ThoughtNumbers(s))
        r3 == IF Truthy(t1.depends_on_assumptions)
              THEN depends_on_loop(s, Val(t1.depends_on_assumptions),
                                   validated_cross_session_refs, 1)
              ELSE [ err |-> NoError, s |-> s ]
        r4 == IF Truthy(t1.assumptions)
              THEN assumptions_loop(r3.s, Val(t1.assumptions), 1)
              ELSE [ err |-> NoError, s |-> r3.s, entries |-> << >> ]
        t4 == IF Truthy(t1.assumptions)
              THEN [ t1 EXCEPT !.assumptions = Some(r4.entries) ]
              ELSE t1
        r5 == IF Truthy(t1.invalidates_assumptions)
              THEN invalidates_loop(r4.s, Val(t1.invalidates_assumptions), 1)
              ELSE [ err |-> NoError, s |-> r4.s ]
    IN  IF e2.kind # "ok" THEN [ err |-> e2, s |-> s, thought |-> t1 ]
        ELSE IF r3.err.kind # "ok"
        THEN [ err |-> r3.err, s |-> r3.s, thought |-> t1 ]
        ELSE IF r4.err.kind # "ok"
        THEN [ err |-> r4.err, s |-> r4.s, thought |-> Settle(r4.s, t4) ]
        ELSE IF r5.err.kind # "ok"
        THEN [ err |-> r5.err, s |-> r5.s, thought |-> Settle(r5.s, t4) ]
        ELSE [ err     |-> NoError,
               s       |-> append_thought(r5.s, Settle(r5.s, t4)),
               thought |-> Settle(r5.s, t4) ]

---------------------------------------------------------------------------
(* Session storage *)

MaxSessionIdLength == 128

SessionIdChars ==
    { "a", "b", "c", "d", "e", "f", "g", "h", "i", "j", "k", "l", "m",
      "n", "o", "p", "q", "r", "s", "t", "u", "v", "w", "x", "y", "z",
      "A", "B", "C", "D", "E", "F", "G", "H", "I", "J", "K", "L", "M",
      "N", "O", "P", "Q", "R", "S", "T", "U", "V", "W", "X", "Y", "Z",
      "0", "1", "2", "3", "4", "5", "6", "7", "8", "9", "_", "-" }

\* _SESSION_ID_PATTERN.match: one or more allowed characters up to the end of the
\* string, where Python's $ also matches just before a final newline
MatchesSessionIdPattern(session_id) ==
    LET n == Len(session_id)
        body == IF n > 0 /\ session_id[n] = "\n" THEN n - 1 ELSE n
    IN  body >= 1 /\ \A i \in 1..body : session_id[i] \in SessionIdChars

SessionIdError(kind, session_id) ==
    [ kind |-> kind, number |-> None, id |-> session_id, available |-> << >> ]

\* _validate_session_id: the ValueError it raises, or NoError
validate_session_id(session_id) ==
    IF Len(session_id) = 0 THEN SessionIdError("session_id_empty", session_id)
    ELSE IF Len(session_id) > MaxSessionIdLength
    THEN SessionIdError("session_id_too_long", session_id)
    ELSE IF ~ MatchesSessionIdPattern(session_id)
    THEN SessionIdError("session_id_invalid", session_id)
    ELSE NoError

\* dicts whose keys are strings: the service's session cache, the sessions directory
EmptyDict == [ k \in {} |-> NewSession ]
Put(dict, key, value) ==
    [ k \in (DOMAIN dict) \cup { key } |-> IF k = key THEN value ELSE dict[k] ]

\* Assumption.model_dump(): every field with its value
model_dump(a) ==
    [ id                  |-> a.id,
      text                |-> a.text,
      confidence          |-> Some(a.confidence),
      critical            |-> Some(a.critical),
      verifiable          |-> Some(a.verifiable),
      evidence            |-> a.evidence,
      verification_status |-> a.verification_status ]

\* save_session, lines 555-585: the document written for a session
SessionData(s) ==
    [ thoughts |->
          [ i \in 1..Len(s.thoughts) |->
              LET t == s.thoughts[i]
              IN  [ t EXCEPT !.assumptions =
                      IF Truthy(t.assumptions)
                      THEN Some([ j \in 1..Len(Val(t.assumptions)) |->
                                    model_dump(View(s, Val(t.assumptions)[j])) ])
                      ELSE None ] ],
      assumptions |-> [ i \in 1..Len(s.assumptions) |-> model_dump(s.assumptions[i]) ],
      branches |->
          [ i \in 1..Len(s.branches) |->
              [ id      |-> s.branches[i].id,
                numbers |-> [ j \in 1..Len(s.branches[i].members) |->
                                s.thoughts[s.branches[i].members[j]].thought_number ] ] ],
      unresolved_refs        |-> s.unresolved_refs,
      cross_session_warnings |-> s.cross_session_warnings ]

\* the content of a session file: a document save_session wrote (kind "ok"), or what
\* something else left there: text that is no JSON ("bad_json"), or the document
\* {"thoughts": "not_a_list"} ("thoughts_not_list")
SavedFile(s) == [ kind |-> "ok", data |-> SessionData(s) ]
DamagedFile(kind) == [ kind |-> kind, data |-> SessionData(NewSession) ]
DamageKinds == { "bad_json", "thoughts_not_list" }

\* further documents that are JSON but no session: [] ("not_mapping"),
\* {"thoughts": null} ("thoughts_null"), {"thoughts": [1]} ("thought_not_mapping"),
\* {"assumptions": []} ("assumptions_not_mapping") and
\* {"assumptions": {"A1": {"id": "A1", "text": "x", "confidence": 2.0}}} ("invalid_field")
RecordKinds ==
    DamageKinds \cup { "not_mapping", "thoughts_null", "thought_not_mapping",
                       "assumptions_not_mapping", "invalid_field" }

\* the documents on which a call of .get or .items fails with AttributeError: data.get
\* on a list and .items() on a list (line 605), thought_data.get on a character of
\* the string and on a number (line 609)
AttributeErrorKinds ==
    { "not_mapping", "assumptions_not_mapping", "thoughts_not_list", "thought_not_mapping" }

\* save_session as it would be if it built the path without _session_file_path
save_session_without_validation(files, session_id, s) ==
    [ err |-> NoError, files |-> Put(files, session_id, SavedFile(s)) ]

\* save_session: the session id is validated when the path is built; the file is
\* overwritten with the whole session
save_session(files, session_id, s) ==
    LET e == validate_session_id(session_id)
    IN  IF e.kind # "ok" THEN [ err |-> e, files |-> files ]
        ELSE [ err |-> NoError, files |-> Put(files, session_id, SavedFile(s)) ]

\* lines 609-613: the keyword arguments load_session hands to Thought for a saved
\* thought; the list fields that are not null arrive as Python lists
SavedThoughtArguments(thought_data) ==
    [ f \in DOMAIN thought_data |->
        IF f \in ListFields /\ thought_data[f] # None THEN PyList(Val(thought_data[f]))
        ELSE thought_data[f] ]

\* load_session, lines 608-618: the loop over the saved thoughts; err is the exception
\* Thought(**thought_data) raises
RECURSIVE load_thoughts(_, _, _)
load_thoughts(s, thoughts, i) ==
    IF i > Len(thoughts) THEN [ err |-> NoError, s |-> s ]
    ELSE IF ListFieldsError(SavedThoughtArguments(thoughts[i])).kind # "ok"
    THEN [ err |-> ListTypeError, s |-> s ]
    ELSE load_thoughts(append_thought(s, Thought(SavedThoughtArguments(thoughts[i]))),
                       thoughts, i + 1)

\* mutant: the branch index is taken from the document's branches field
RestoredLists_and_branches(loaded, data) ==
    [ err |-> loaded.err,
      s   |-> [ loaded.s EXCEPT !.unresolved_refs = data.unresolved_refs,
                                !.cross_session_warnings = data.cross_session_warnings,
                                !.branches = [ k \in 1..Len(data.branches) |->
                                                 [ id      |-> data.branches[k].id,
                                                   members |-> data.branches[k].numbers ] ] ] ]

\* load_session, lines 620-621: the two lists are taken from the document
RestoredLists(loaded, data) ==
    [ err |-> loaded.err,
      s   |-> [ loaded.s EXCEPT !.unresolved_refs = data.unresolved_refs,
                                !.cross_session_warnings = data.cross_session_warnings ] ]

\* mutant: the session is rebuilt without its branch index
SessionFromData_without_branches(data) ==
    LET rebuilt == RestoredLists(
                       load_thoughts([ NewSession EXCEPT
                                         !.assumptions = [ i \in 1..Len(data.assumptions) |->
                                                             Assumption(data.assumptions[i]) ] ],
                                     data.thoughts, 1),
                       data)
    IN  [ err |-> rebuilt.err, s |-> [ rebuilt.s EXCEPT !.branches = << >> ] ]

\* load_session, lines 602-623: the session rebuilt from a document
SessionFromData(data) ==
    RestoredLists(
        load_thoughts([ NewSession EXCEPT
                          !.assumptions = [ i \in 1..Len(data.assumptions) |->
                                              Assumption(data.assumptions[i]) ] ],
                      data.thoughts, 1),
        data)

\* load_session, lines 623-626: the session is returned, unless Thought(**thought_data)
\* raised TypeError, which is caught
Returned(rebuilt) ==
    IF rebuilt.err.kind = "type_error" THEN [ err |-> NoError, session |-> None ]
    ELSE [ err |-> NoError, session |-> Some(rebuilt.s) ]

\* load_session: err is the exception that escapes (NoError if none), session is the
\* session returned, None for a missing file and for a file read as corrupted
load_session(files, session_id) ==
    IF validate_session_id(session_id).kind # "ok"
    THEN [ err |-> validate_session_id(session_id), session |-> None ]
    ELSE IF session_id \notin DOMAIN files THEN [ err |-> NoError, session |-> None ]
    \* json.JSONDecodeError is caught (lines 598-600)
    ELSE IF files[session_id].kind = "bad_json" THEN [ err |-> NoError, session |-> None ]
    \* AttributeError is not among the exceptions the except clause of line 624 names
    ELSE IF files[session_id].kind \in AttributeErrorKinds
    THEN [ err |-> SessionIdError("attribute_error", session_id), session |-> None ]
    \* iterating None raises TypeError (line 608) and a confidence of 2.0 raises
    \* ValidationError (line 606); both are caught (lines 624-626)
    ELSE IF files[session_id].kind \in { "thoughts_null", "invalid_field" }
    THEN [ err |-> NoError, session |-> None ]
    ELSE Returned(SessionFromData(files[session_id].data))

---------------------------------------------------------------------------
(* UltraThinkService *)

Raised(r) == r.err.kind # "ok"

\* _get_or_create_session, lines 652-659: loaded is what load_session gave
loaded_or_new(sessions, session_id, loaded) ==
    IF Raised(loaded)
    THEN [ err |-> loaded.err, sessions |-> sessions, session_id |-> session_id ]
    ELSE IF loaded.session # None
    THEN [ err |-> NoError, sessions |-> Put(sessions, session_id, Val(loaded.session)),
           session_id |-> session_id ]
    ELSE [ err |-> NoError, sessions |-> Put(sessions, session_id, NewSession),
           session_id |-> session_id ]

\* mutant: a session whose record is there is read again from it on every request
get_or_create_session_rereading(sessions, files, session_id, new_id) ==
    IF session_id = None
    THEN [ err |-> NoError, sessions |-> Put(sessions, new_id, NewSession),
           session_id |-> new_id ]
    ELSE IF Val(session_id) \in DOMAIN sessions /\ Val(session_id) \notin DOMAIN files
    THEN [ err |-> NoError, sessions |-> sessions, session_id |-> Val(session_id) ]
    ELSE loaded_or_new(sessions, Val(session_id), load_session(files, Val(session_id)))

\* _get_or_create_session; new_id is the uuid4 drawn when the request names no session
get_or_create_session(sessions, files, session_id, new_id) ==
    IF session_id = None
    THEN [ err |-> NoError, sessions |-> Put(sessions, new_id, NewSession),
           session_id |-> new_id ]
    ELSE IF Val(session_id) \in DOMAIN sessions
    THEN [ err |-> NoError, sessions |-> sessions, session_id |-> Val(session_id) ]
    ELSE loaded_or_new(sessions, Val(session_id), load_session(files, Val(session_id)))

\* mutant: every id is found in a target session that is available
looked_up_whatever_the_id(sessions, target_session_id, local_id) ==
    [ err |-> NoError, sessions |-> sessions, was_resolved |-> TRUE ]

\* _resolve_cross_session_assumption, line 677: the lookup in the target session
looked_up(sessions, target_session_id, local_id) ==
    [ err |-> NoError, sessions |-> sessions,
      was_resolved |-> HasKey(sessions[target_session_id].assumptions, local_id) ]

\* mutant: a target session that cannot be loaded is cached as an empty session
target_loaded_or_created(sessions, target_session_id, local_id, loaded) ==
    IF Raised(loaded)
    THEN [ err |-> loaded.err, sessions |-> sessions, was_resolved |-> FALSE ]
    ELSE IF loaded.session = None
    THEN [ err |-> NoError, sessions |-> Put(sessions, target_session_id, NewSession),
           was_resolved |-> FALSE ]
    ELSE looked_up(Put(sessions, target_session_id, Val(loaded.session)),
                   target_session_id, local_id)

\* _resolve_cross_session_assumption, lines 669-674: the target session is not cached
\* and loaded is what load_session gave
target_loaded(sessions, target_session_id, local_id, loaded) ==
    IF Raised(loaded)
    THEN [ err |-> loaded.err, sessions |-> sessions, was_resolved |-> FALSE ]
    ELSE IF loaded.session = None
    THEN [ err |-> NoError, sessions |-> sessions, was_resolved |-> FALSE ]
    ELSE looked_up(Put(sessions, target_session_id, Val(loaded.session)),
                   target_session_id, local_id)

\* mutant: the target's record is read on every lookup, cached or not
resolve_parsed_rereading(sessions, files, parsed) ==
    IF parsed.session_id = None
    THEN [ err |-> NoError, sessions |-> sessions, was_resolved |-> TRUE ]
    ELSE IF Val(parsed.session_id) \in DOMAIN sessions
            /\ Val(parsed.session_id) \notin DOMAIN files
    THEN looked_up(sessions, Val(parsed.session_id), parsed.local_id)
    ELSE target_loaded(sessions, Val(parsed.session_id), parsed.local_id,
                       load_session(files, Val(parsed.session_id)))

\* _resolve_cross_session_assumption, lines 666-680, for the parsed id
resolve_parsed(sessions, files, parsed) ==
    IF parsed.session_id = None
    THEN [ err |-> NoError, sessions |-> sessions, was_resolved |-> TRUE ]
    ELSE IF Val(parsed.session_id) \in DOMAIN sessions
    THEN looked_up(sessions, Val(parsed.session_id), parsed.local_id)
    ELSE target_loaded(sessions, Val(parsed.session_id), parsed.local_id,
                       load_session(files, Val(parsed.session_id)))

\* _resolve_cross_session_assumption
resolve_cross_session_assumption(sessions, files, scoped_id) ==
    resolve_parsed(sessions, files, parse_assumption_id(scoped_id))

RECURSIVE resolve_loop(_, _, _, _, _)

\* process_thought, lines 699-703: r is what _resolve_cross_session_assumption gave
\* for ids[i]
resolve_next(r, files, ids, validated, i) ==
    IF Raised(r)
    THEN [ err |-> r.err, sessions |-> r.sessions, validated |-> validated ]
    ELSE resolve_loop(r.sessions, files, ids,
                      IF r.was_resolved THEN Append(validated, ids[i]) ELSE validated,
                      i + 1)

\* process_thought, lines 695-703: the loop over request.depends_on_assumptions
resolve_loop(sessions, files, ids, validated, i) ==
    IF i > Len(ids)
    THEN [ err |-> NoError, sessions |-> sessions, validated |-> validated ]
    ELSE IF ~ HasColon(ids[i])
    THEN resolve_loop(sessions, files, ids, validated, i + 1)
    ELSE resolve_next(resolve_cross_session_assumption(sessions, files, ids[i]),
                      files, ids, validated, i)

\* mutant: a request without thought_number is numbered one above the highest number
\* in the log
ThoughtArguments_after_highest_number(request, s) ==
    LET thought_number ==
            IF request.thought_number # None THEN Val(request.thought_number)
            ELSE IF ThoughtNumbers(s) = {} THEN 1
            ELSE (CHOOSE n \in ThoughtNumbers(s) : \A k \in ThoughtNumbers(s) : k <= n) + 1
        next_thought_needed ==
            IF request.next_thought_needed = None
            THEN thought_number < request.total_thoughts
            ELSE Val(request.next_thought_needed)
    IN  [ f \in (DOMAIN request) \ { "session_id" } |->
            IF f = "thought_number" THEN thought_number
            ELSE IF f = "next_thought_needed" THEN next_thought_needed
            ELSE IF f \in { "assumptions", "depends_on_assumptions",
                            "invalidates_assumptions" } /\ request[f] # None
            THEN PyList(Val(request[f]))
            ELSE request[f] ]

\* mutant: a request without next_thought_needed asks for more thoughts up to and
\* including the last estimated one
ThoughtArguments_needed_at_total(request, s) ==
    LET thought_number == IF request.thought_number = None THEN thought_count(s) + 1
                          ELSE Val(request.thought_number)
        next_thought_needed ==
            IF request.next_thought_needed = None
            THEN thought_number <= request.total_thoughts
            ELSE Val(request.next_thought_needed)
    IN  [ f \in (DOMAIN request) \ { "session_id" } |->
            IF f = "thought_number" THEN thought_number
            ELSE IF f = "next_thought_needed" THEN next_thought_needed
            ELSE IF f \in { "assumptions", "depends_on_assumptions",
                            "invalidates_assumptions" } /\ request[f] # None
            THEN PyList(Val(request[f]))
            ELSE request[f] ]

\* lines 685-693 and 705-707: thought_data, the keyword arguments for the Thought;
\* request.model_dump() gives the list fields that are not None as Python lists
ThoughtArguments(request, s) ==
    LET thought_number == IF request.thought_number = None THEN thought_count(s) + 1
                          ELSE Val(request.thought_number)
        next_thought_needed ==
            IF request.next_thought_needed = None
            THEN thought_number < request.total_thoughts
            ELSE Val(request.next_thought_needed)
    IN  [ f \in (DOMAIN request) \ { "session_id" } |->
            IF f = "thought_number" THEN thought_number
            ELSE IF f = "next_thought_needed" THEN next_thought_needed
            ELSE IF f \in { "assumptions", "depends_on_assumptions",
                            "invalidates_assumptions" } /\ request[f] # None
            THEN PyList(Val(request[f]))
            ELSE request[f] ]

\* lines 713-728
ThoughtResponse(session_id, thought, s) ==
    [ session_id             |-> session_id,
      thought_number         |-> thought.thought_number,
      total_thoughts         |-> thought.total_thoughts,
      next_thought_needed    |-> thought.next_thought_needed,
      branches               |-> branch_ids(s),
      thought_history_length |-> thought_count(s),
      confidence             |-> thought.confidence,
      uncertainty_notes      |-> thought.uncertainty_notes,
      outcome                |-> thought.outcome,
      all_assumptions        |-> s.assumptions,
      risky_assumptions      |-> risky_assumptions(s),
      falsified_assumptions  |-> falsified_assumptions(s),
      unresolved_references  |-> s.unresolved_refs,
      cross_session_warnings |-> s.cross_session_warnings ]

NoResponse == << >>

\* mutant: the session is saved whether add_thought raised or not
conclude_always_saves(sessions, files, session_id, added) ==
    LET saved == save_session(files, session_id, added.s)
    IN  [ err      |-> IF Raised(added) THEN added.err ELSE saved.err,
          before   |-> sessions[session_id],
          stage    |-> IF Raised(added) THEN "add_thought" ELSE "done",
          sessions |-> Put(sessions, session_id, added.s),
          files    |-> saved.files,
          saved    |-> TRUE,
          session_id |-> session_id,
          response |-> IF Raised(added) THEN NoResponse
                       ELSE ThoughtResponse(session_id, added.thought, added.s) ]

\* mutant: the session is saved as it was before add_thought appended the thought
conclude_saves_previous(sessions, files, session_id, added) ==
    LET saved == save_session(files, session_id, sessions[session_id])
    IN  IF Raised(added)
        THEN [ err |-> added.err, stage |-> "add_thought", before |-> sessions[session_id],
               sessions |-> Put(sessions, session_id, added.s), files |-> files,
               saved |-> FALSE, session_id |-> session_id, response |-> NoResponse ]
        ELSE IF Raised(saved)
        THEN [ err |-> saved.err, stage |-> "save", before |-> sessions[session_id],
               sessions |-> Put(sessions, session_id, added.s), files |-> files,
               saved |-> FALSE, session_id |-> session_id, response |-> NoResponse ]
        ELSE [ err |-> NoError, stage |-> "done", before |-> sessions[session_id],
               sessions |-> Put(sessions, session_id, added.s), files |-> saved.files,
               saved |-> TRUE, session_id |-> session_id,
               response |-> ThoughtResponse(session_id, added.thought, added.s) ]

\* lines 710-728: add_thought has run on the cached session object (added is its
\* outcome); the session is saved and the response built only if it did not raise
conclude(sessions, files, session_id, added) ==
    LET saved == save_session(files, session_id, added.s)
    IN  IF Raised(added)
        THEN [ err |-> added.err, stage |-> "add_thought", before |-> sessions[session_id],
               sessions |-> Put(sessions, session_id, added.s), files |-> files,
               saved |-> FALSE, session_id |-> session_id, response |-> NoResponse ]
        ELSE IF Raised(saved)
        THEN [ err |-> saved.err, stage |-> "save", before |-> sessions[session_id],
               sessions |-> Put(sessions, session_id, added.s), files |-> files,
               saved |-> FALSE, session_id |-> session_id, response |-> NoResponse ]
        ELSE [ err |-> NoError, stage |-> "done", before |-> sessions[session_id],
               sessions |-> Put(sessions, session_id, added.s), files |-> saved.files,
               saved |-> TRUE, session_id |-> session_id,
               response |-> ThoughtResponse(session_id, added.thought, added.s) ]

\* process_thought, lines 705-728: thought_data is built for the session s, the
\* Thought is built from it (line 708) and handed to add_thought
build_and_add(resolved, files, session_id, s, thought_data) ==
    IF ListFieldsError(thought_data).kind # "ok"
    THEN [ err |-> ListTypeError, stage |-> "thought", before |-> s,
           sessions |-> resolved.sessions,
           files |-> files, saved |-> FALSE, session_id |-> session_id,
           response |-> NoResponse ]
    ELSE conclude(resolved.sessions, files, session_id,
                  add_thought(s, Thought(thought_data), Some(resolved.validated)))

\* process_thought, lines 694-728: resolved is the outcome of the loop over
\* request.depends_on_assumptions
resolved_then_add(got, resolved, files, request) ==
    IF Raised(resolved)
    THEN [ err |-> resolved.err, stage |-> "resolve",
           before |-> got.sessions[got.session_id],
           sessions |-> resolved.sessions,
           files |-> files, saved |-> FALSE, session_id |-> got.session_id,
           response |-> NoResponse ]
    ELSE build_and_add(resolved, files, got.session_id,
                       resolved.sessions[got.session_id],
                       ThoughtArguments(request, resolved.sessions[got.session_id]))

\* process_thought, lines 685-728: got is what _get_or_create_session gave
session_then_add(got, files, request) ==
    IF Raised(got)
    THEN [ err |-> got.err, stage |-> "session", before |-> NewSession,
           sessions |-> got.sessions,
           files |-> files, saved |-> FALSE, session_id |-> got.session_id,
           response |-> NoResponse ]
    ELSE resolved_then_add(
             got,
             IF Truthy(request.depends_on_assumptions)
             THEN resolve_loop(got.sessions, files, Val(request.depends_on_assumptions),
                               << >>, 1)
             ELSE [ err |-> NoError, sessions |-> got.sessions, validated |-> << >> ],
             files, request)

\* UltraThinkService.process_thought: err is the exception that escapes, stage the step
\* that raised it, before the session object as add_thought found it, sessions the
\* service's cache and files the sessions directory after the call
process_thought(sessions, files, request, new_id) ==
    session_then_add(get_or_create_session(sessions, files, request.session_id, new_id),
                     files, request)

---------------------------------------------------------------------------
(* Requests explored *)

\* the keyword arguments of a Thought with the optional ones left out; assumptions,
\* when given, are the raw dicts of the JSON list (see AssumptionData)
ThoughtData(thought_number, total_thoughts, next_thought_needed) ==
    [ thought                 |-> << "T" >>,
      thought_number          |-> thought_number,
      total_thoughts          |-> total_thoughts,
      next_thought_needed     |-> next_thought_needed,
      is_revision             |-> None,
      revises_thought         |-> None,
      branch_from_thought     |-> None,
      branch_id               |-> None,
      needs_more_thoughts     |-> None,
      confidence              |-> None,
      uncertainty_notes       |-> None,
      outcome                 |-> None,
      assumptions             |-> None,
      depends_on_assumptions  |-> None,
      invalidates_assumptions |-> None ]

ThoughtNumberRange == 1..MaxThoughts

\* the revision and branch fields a caller may combine
LinkInputs(t) ==
    { t }
    \cup { [ t EXCEPT !.is_revision = Some(TRUE), !.revises_thought = Some(n) ] :
             n \in ThoughtNumberRange }
    \cup { [ t EXCEPT !.revises_thought = Some(n) ] : n \in ThoughtNumberRange }
    \cup { [ t EXCEPT !.branch_from_thought = Some(n), !.branch_id = Some(<< "b" >>) ] :
             n \in ThoughtNumberRange }
    \cup { [ t EXCEPT !.branch_from_thought = Some(n) ] : n \in ThoughtNumberRange }
    \cup { [ t EXCEPT !.branch_from_thought = Some(n), !.branch_id = Some(<< >>) ] :
             n \in ThoughtNumberRange }
    \cup { [ t EXCEPT !.is_revision = Some(TRUE), !.revises_thought = Some(n),
                      !.branch_from_thought = Some(m), !.branch_id = Some(<< "b" >>) ] :
             n \in ThoughtNumberRange, m \in ThoughtNumberRange }

LogInputs ==
    UNION { LinkInputs(ThoughtData(n, 1, TRUE)) : n \in ThoughtNumberRange }

\* ids, texts and raw assumption dicts
A1 == << "A", "1" >>
A2 == << "A", "2" >>

AssumptionData(id, text) ==
    [ id |-> id, text |-> text, confidence |-> None, critical |-> None,
      verifiable |-> None, evidence |-> None, verification_status |-> None ]

\* {"id": "A1", "text": "x"}
A1_x == AssumptionData(A1, << "x" >>)
\* the same assumption with every mutable field given
A1_x_verified ==
    [ A1_x EXCEPT !.confidence = Some(3), !.verifiable = Some(TRUE),
                  !.evidence = Some(<< "e" >>),
                  !.verification_status = Some("verified_true") ]
A1_x_falsified == [ A1_x EXCEPT !.verification_status = Some("verified_false") ]
A1_x_threshold == [ A1_x EXCEPT !.confidence = Some(7), !.critical = Some(TRUE) ]
\* a different text, a different critical flag
A1_y == AssumptionData(A1, << "y" >>)
A1_x_not_critical == [ A1_x EXCEPT !.critical = Some(FALSE), !.confidence = Some(3) ]
A2_x_risky == [ AssumptionData(A2, << "x" >>) EXCEPT !.confidence = Some(3) ]

\* the list fields are given as JSON text
WithAssumptions(t, list) == [ t EXCEPT !.assumptions = JsonText(list) ]
WithDepends(t, ids) == [ t EXCEPT !.depends_on_assumptions = JsonText(ids) ]
WithInvalidates(t, ids) == [ t EXCEPT !.invalidates_assumptions = JsonText(ids) ]

\* thoughts that declare, re-declare and invalidate assumptions; n is the thought number
LedgerInputs(n) ==
    LET t == ThoughtData(n, 1, TRUE)
    IN  { WithAssumptions(t, << A1_x >>),
          WithAssumptions(t, << A1_x_verified >>),
          WithAssumptions(t, << A1_x_falsified >>),
          WithAssumptions(t, << A1_x_threshold >>),
          WithAssumptions(t, << A1_y >>),
          WithAssumptions(t, << A1_x_not_critical >>),
          WithAssumptions(t, << A2_x_risky >>),
          WithAssumptions(t, << A1_x, A1_x_verified >>),
          WithAssumptions(t, << A2_x_risky, A1_y >>),
          WithInvalidates(t, << A1 >>),
          WithInvalidates(t, << A2 >>),
          WithInvalidates(WithAssumptions(t, << A1_x >>), << A1 >>),
          WithInvalidates(WithAssumptions(t, << A1_x_verified >>), << A1 >>),
          WithInvalidates(WithAssumptions(t, << A1_x_verified >>), << A2 >>),
          [ WithAssumptions(t, << A1_y >>) EXCEPT
              !.is_revision = Some(TRUE), !.revises_thought = Some(MaxThoughts) ] }


\* scoped ids naming assumptions of a session "s"
S_A1 == << "s", ":", "A", "1" >>
S_A2 == << "s", ":", "A", "2" >>

\* thoughts with dependencies, each with the validated_cross_session_refs handed to
\* add_thought along with it; n is the thought number
RefsInputs(n) ==
    LET t == ThoughtData(n, 1, TRUE)
        call(data, refs) == [ data |-> data, refs |-> refs ]
    IN  { call(WithAssumptions(t, << A1_x >>), None),
          call(WithDepends(t, << A1 >>), None),
          call(WithDepends(t, << A2 >>), None),
          call(WithDepends(t, << >>), None),
          call(WithDepends(WithAssumptions(t, << A1_x >>), << A1 >>), None),
          call(WithDepends(t, << S_A1 >>), None),
          call(WithDepends(t, << S_A1 >>), Some(<< >>)),
          call(WithDepends(t, << S_A1 >>), Some(<< S_A1 >>)),
          call(WithDepends(t, << S_A1, S_A1 >>), None),
          call(WithDepends(t, << S_A1, S_A2 >>), Some(<< S_A1 >>)),
          call(WithDepends(t, << S_A2, S_A1 >>), None),
          call(WithDepends(t, << S_A1, A2 >>), None),
          call(WithDepends(t, << A1, S_A2 >>), Some(<< S_A1 >>)),
          call(WithDepends(WithAssumptions(t, << A1_y >>), << S_A1 >>), None),
          call([ WithDepends(t, << A2 >>) EXCEPT
                   !.is_revision = Some(TRUE), !.revises_thought = Some(MaxThoughts) ],
               None) }

\* thoughts that abort at each step of add_thought, and thoughts that set up the log,
\* the branch index and the registry for them; n is the thought number
AbortInputs(n) ==
    LET t == ThoughtData(n, 1, TRUE)
        branch == [ t EXCEPT !.branch_from_thought = Some(1), !.branch_id = Some(<< "b" >>) ]
        call(data, refs) == [ data |-> data, refs |-> refs ]
    IN  { call(t, None),
          call(branch, None),
          call([ t EXCEPT !.is_revision = Some(TRUE), !.revises_thought = Some(n) ], None),
          call(WithAssumptions(t, << A1_x >>), None),
          call(WithAssumptions(t, << A1_x_verified >>), None),
          call(WithAssumptions(branch, << A1_y >>), None),
          call(WithDepends(t, << A2 >>), None),
          call(WithDepends(WithAssumptions(t, << A1_y >>), << S_A1 >>), None),
          call(WithDepends(WithAssumptions(t, << A1_y >>), << S_A1 >>), Some(<< S_A1 >>)),
          call(WithInvalidates(branch, << A2 >>), None),
          call(WithInvalidates(WithAssumptions(t, << A1_x_verified >>), << A2 >>), None),
          call(WithInvalidates(WithAssumptions(t, << A2_x_risky >>), << A1 >>), None) }

\* session ids: two well-formed ones, a generated one, one with a path in it, an empty one
SessionS == << "s" >>
SessionT == << "t" >>
Uuid == << "u" >>
PathId == << ".", ".", "/", "x" >>

T_A1 == << "t", ":", "A", "1" >>
Path_A1 == PathId \o << ":" >> \o A1
Empty_A1 == << ":" >> \o A1

\* ThoughtRequest(...) with the optional fields left out
RequestData(session_id) ==
    [ ThoughtData(1, 1, TRUE) EXCEPT !.thought_number = None, !.next_thought_needed = None ]
        @@ [ session_id |-> session_id ]

\* two UltraThinkService instances (two processes) over the same sessions directory
Services == { "a", "b" }

\* the requests a service receives
ServiceRequests ==
    LET s == RequestData(Some(SessionS))
        t == RequestData(Some(SessionT))
    IN  { s, t,
          WithAssumptions(t, << A1_x >>),
          WithAssumptions(s, << A1_x >>),
          WithAssumptions(s, << A1_y >>),
          WithDepends(s, << T_A1 >>),
          WithDepends(s, << Path_A1 >>),
          WithDepends(s, << Empty_A1 >>),
          WithDepends(s, << A2 >>),
          WithDepends(WithAssumptions(s, << A1_y >>), << T_A1 >>),
          WithInvalidates(s, << T_A1 >>),
          WithInvalidates(s, << S_A1 >>),
          WithInvalidates(s, << T_A1, A2 >>),
          WithInvalidates(WithAssumptions(s, << A1_x_verified >>), << A2 >>),
          [ s EXCEPT !.is_revision = Some(TRUE), !.revises_thought = Some(MaxCalls) ],
          RequestData(Some(PathId)) }

\* requests to session "s" with every combination of an explicit or defaulted thought
\* number and an estimated total
TotalsRange == 1..(MaxThoughts + 1)

TotalsRequests ==
    { [ RequestData(Some(SessionS)) EXCEPT !.thought_number = n, !.total_thoughts = total ] :
        n \in { None } \cup { Some(k) : k \in TotalsRange }, total \in TotalsRange }

\* thoughts for a session that is saved and loaded: plain and branch thoughts, and
\* thoughts that declare A1, depend on an assumption of another session and invalidate
\* scoped ids (one of them naming this very session); n is the thought number
StoreInputs(n) ==
    LET t == ThoughtData(n, 1, TRUE)
    IN  { t,
          [ t EXCEPT !.branch_from_thought = Some(1), !.branch_id = Some(<< "b" >>) ],
          WithAssumptions(t, << A1_x >>),
          WithDepends(t, << T_A1 >>),
          WithInvalidates(t, << S_A1 >>),
          WithInvalidates(WithAssumptions(t, << A1_x >>), << T_A1, A1 >>),
          WithInvalidates(WithAssumptions(t, << A1_x >>), << A2 >>) }

\* a request about session "s" that makes the service obtain the session and look up
\* s:A1 in it
StoreRequest == WithDepends(RequestData(Some(SessionS)), << S_A1 >>)

\* thoughts for a session whose file is also written by something else
RecordInputs(n) ==
    LET t == ThoughtData(n, 1, TRUE)
    IN  { t, WithAssumptions(t, << A1_x >>) }

\* requests about session "s" from callers that continue it: plain and branch thoughts
\* with and without a thought number, and thoughts with a list field
ContinueRequests ==
    LET s == RequestData(Some(SessionS))
    IN  { s,
          [ s EXCEPT !.thought_number = Some(1) ],
          [ s EXCEPT !.branch_from_thought = Some(1), !.branch_id = Some(<< "b" >>) ],
          WithAssumptions(s, << A1_x >>),
          WithInvalidates(s, << S_A1 >>) }

\* a session a caller built with add_thought before any service ran: one thought in
\* the log, and A1 in the registry from a second call that aborted after declaring it
EarlierSession ==
    add_thought(add_thought(NewSession, Thought(ThoughtData(1, 1, TRUE)), None).s,
                Thought(WithInvalidates(WithAssumptions(ThoughtData(2, 1, TRUE), << A1_x >>),
                                        << A2 >>)),
                None).s

\* thoughts for a session with branches: branches "b" and "c" from thought 1, a
\* thought with branch_from_thought and an empty branch_id, and a thought that carries
\* branch_id "b" without branch_from_thought; n is the thought number
BranchInputs(n) ==
    LET t == ThoughtData(n, 1, TRUE)
    IN  { [ t EXCEPT !.branch_from_thought = Some(1), !.branch_id = Some(<< "b" >>) ],
          [ t EXCEPT !.branch_from_thought = Some(1), !.branch_id = Some(<< "c" >>) ],
          [ t EXCEPT !.branch_from_thought = Some(1), !.branch_id = Some(<< >>) ],
          [ t EXCEPT !.branch_id = Some(<< "b" >>) ] }

\* what the branches field of a record may hold after something else rewrote it:
\* nothing, or a branch "z" of thought 1
TamperedBranches ==
    { << >>, << [ id |-> << "z" >>, numbers |-> << 1 >> ] >> }

\* the longest log of a session with branches
MaxBranchLog == 3

\* scoped ids of session "t": an assumption it may lack, and an id with two colons
T_A2 == << "t", ":", "A", "2" >>
T_T_A1 == << "t", ":" >> \o T_A1

\* a session like EarlierSession whose aborted call declared an assumption under the
\* id "t:A1"
ScopedSession ==
    add_thought(add_thought(NewSession, Thought(ThoughtData(1, 1, TRUE)), None).s,
                Thought(WithInvalidates(
                            WithAssumptions(ThoughtData(2, 1, TRUE),
                                            << AssumptionData(T_A1, << "x" >>) >>),
                            << A2 >>)),
                None).s

\* the ids handed to the resolver
ResolveIds == { T_A1, T_A2, T_T_A1, S_A1, Path_A1, Empty_A1 }

\* requests that make a service hold session "t", or resolve ids of "t" on behalf of "s"
ResolveRequests ==
    { RequestData(Some(SessionT)),
      WithDepends(RequestData(Some(SessionS)), << T_A2, T_A1 >>) }

\* thoughts that declare an assumption under the local id A1 and under the scoped id
\* "t:A1", and thoughts that refer to "t:A1"; n is the thought number
RegistryInputs(n) ==
    LET t == ThoughtData(n, 1, TRUE)
    IN  { WithAssumptions(t, << A1_x >>),
          WithAssumptions(t, << AssumptionData(T_A1, << "x" >>) >>),
          WithDepends(t, << T_A1 >>),
          WithInvalidates(t, << T_A1 >>) }

\* requests to session "s" with thought_number and next_thought_needed given or
\* omitted, for several estimated totals, and a request that fails
NumberingRequests ==
    { [ RequestData(Some(SessionS)) EXCEPT !.thought_number = n, !.total_thoughts = total,
                                           !.next_thought_needed = needed ] :
        n \in { None, Some(2) }, total \in TotalsRange,
        needed \in { None, Some(TRUE), Some(FALSE) } }
    \cup { WithAssumptions(RequestData(Some(SessionS)), << A1_x >>) }

\* thoughts for a session whose log and registry grow: a plain thought, a
\* declaration of A1, a thought that declares A2 and invalidates A1 (it aborts while
\* A1 is unknown), and a revision of a thought that does not exist; n is the thought
\* number
GrowthInputs(n) ==
    LET t == ThoughtData(n, 1, TRUE)
    IN  { t,
          WithAssumptions(t, << A1_x >>),
          WithInvalidates(WithAssumptions(t, << A2_x_risky >>), << A1 >>),
          [ t EXCEPT !.is_revision = Some(TRUE), !.revises_thought = Some(MaxThoughts + 1) ] }

\* plain thoughts, revisions and branches of every thought number up to one no log
\* of the bound holds, and a thought whose revision and branch reference both dangle
DanglingInputs ==
    { ThoughtData(k, 1, needed) : k \in ThoughtNumberRange, needed \in BOOLEAN }
    \cup { [ ThoughtData(k, 1, TRUE) EXCEPT
               !.is_revision = Some(TRUE), !.revises_thought = Some(n) ] :
             k \in ThoughtNumberRange, n \in 1..(MaxThoughts + 1) }
    \cup { [ ThoughtData(k, 1, TRUE) EXCEPT
               !.branch_from_thought = Some(n), !.branch_id = Some(<< "b" >>) ] :
             k \in ThoughtNumberRange, n \in 1..(MaxThoughts + 1) }
    \cup { [ ThoughtData(1, 1, TRUE) EXCEPT
               !.is_revision = Some(TRUE), !.revises_thought = Some(MaxThoughts + 1),
               !.branch_from_thought = Some(MaxThoughts + 1),
               !.branch_id = Some(<< "b" >>) ] }

\* the session ids explored for validation: every string of at most MaxIdLength
\* characters over IdAlphabet, and strings of 127 to 129 characters, with and without
\* a final newline
MaxIdLength == 2

IdAlphabet == { "a", "Z", "0", "-", "_", "/", ".", " ", "\n" }

Repeat(c, n) == [ i \in 1..n |-> c ]

IdInputs ==
    UNION { [ 1..k -> IdAlphabet ] : k \in 0..MaxIdLength }
    \cup { Repeat("a", MaxSessionIdLength - 1),
           Repeat("a", MaxSessionIdLength),
           Repeat("a", MaxSessionIdLength + 1),
           Repeat("a", MaxSessionIdLength - 1) \o << "\n" >>,
           Repeat("a", MaxSessionIdLength) \o << "\n" >>,
           Repeat("a", MaxSessionIdLength - 1) \o << "/" >> }

---------------------------------------------------------------------------
(* State machine *)

Init ==
    /\ session = NewSession
    /\ cache = [ v \in Services |-> EmptyDict ]
    /\ disk = EmptyDict
    /\ last = [ op |-> "init", calls |-> 0 ]

\* a caller builds a Thought from data and hands it to ThinkingSession.add_thought of
\* the stand-alone session
AddThought(data, validated_cross_session_refs) ==
    /\ Len(session.thoughts) < MaxThoughts
    /\ ListFieldsError(data).kind = "ok"
    /\ LET r == add_thought(session, Thought(data), validated_cross_session_refs)
       IN  /\ session' = r.s
           /\ last' = [ op      |-> "add_thought",
                        calls   |-> last.calls,
                        thought |-> data,
                        refs    |-> validated_cross_session_refs,
                        pre     |-> session,
                        err     |-> r.err,
                        result  |-> r.thought ]
    /\ UNCHANGED << cache, disk >>

\* the same call made when the log already holds MaxThoughts thoughts: followed only
\* if it raises, so that the log stays within the bound
AddThoughtToFullLog(data, validated_cross_session_refs) ==
    /\ Len(session.thoughts) = MaxThoughts
    /\ ListFieldsError(data).kind = "ok"
    /\ \E r \in { add_thought(session, Thought(data), validated_cross_session_refs) } :
           /\ r.err.kind # "ok"
           /\ session' = r.s
           /\ last' = [ op      |-> "add_thought",
                        calls   |-> last.calls,
                        thought |-> data,
                        refs    |-> validated_cross_session_refs,
                        pre     |-> session,
                        err     |-> r.err,
                        result  |-> r.thought ]
    /\ UNCHANGED << cache, disk >>

LogNext == \E t \in LogInputs : AddThought(t, None)

SpecLog == Init /\ [][LogNext]_vars

LedgerNext == \E t \in LedgerInputs(Len(session.thoughts) + 1) : AddThought(t, None)

SpecLedger == Init /\ [][LedgerNext]_vars

\* a caller builds a ThoughtRequest from data and a service instance processes it; uuid
\* is the id drawn for a new session
ProcessThought(v, data, uuid) ==
    /\ last.calls < MaxCalls
    /\ ListFieldsError(data).kind = "ok"
    /\ \A w \in Services : uuid \notin DOMAIN cache[w]
    /\ uuid \notin DOMAIN disk
    /\ \E r \in { process_thought(cache[v], disk, ThoughtRequest(data), uuid) } :
           /\ cache' = [ cache EXCEPT ![v] = r.sessions ]
           /\ disk' = r.files
           /\ last' = [ op         |-> "process_thought",
                        calls      |-> last.calls + 1,
                        service    |-> v,
                        thought    |-> data,
                        before     |-> r.before,
                        pre_cache  |-> cache,
                        pre_disk   |-> disk,
                        err        |-> r.err,
                        stage      |-> r.stage,
                        saved      |-> r.saved,
                        session_id |-> r.session_id,
                        response   |-> r.response ]
    /\ UNCHANGED session

\* something other than the program damages or plants a session file
DamageFile(session_id, kind) ==
    /\ last.calls < MaxCalls
    /\ disk' = Put(disk, session_id, DamagedFile(kind))
    /\ last' = [ op |-> "damage_file", calls |-> last.calls + 1,
                 session_id |-> session_id, kind |-> kind ]
    /\ UNCHANGED << session, cache >>

ServiceNext ==
    \/ \E v \in Services, request \in ServiceRequests : ProcessThought(v, request, Uuid)
    \/ \E id \in { SessionS, SessionT }, kind \in DamageKinds : DamageFile(id, kind)

SpecService == Init /\ [][ServiceNext]_vars

\* one long-lived service instance, the only writer of the sessions directory
LongLivedNext == \E request \in ServiceRequests : ProcessThought("a", request, Uuid)

SpecLongLived == Init /\ [][LongLivedNext]_vars

TotalsNext == \E request \in TotalsRequests : ProcessThought("a", request, Uuid)

SpecTotals == Init /\ [][TotalsNext]_vars

RefsNext == \E c \in RefsInputs(Len(session.thoughts) + 1) : AddThought(c.data, c.refs)

SpecRefs == Init /\ [][RefsNext]_vars

AbortNext ==
    \E c \in AbortInputs(Len(session.thoughts) + 1) :
        \/ AddThought(c.data, c.refs)
        \/ AddThoughtToFullLog(c.data, c.refs)

SpecAbort == Init /\ [][AbortNext]_vars

\* a caller saves the stand-alone session under session_id
SaveSession(session_id) ==
    /\ \E r \in { save_session(disk, session_id, session) } :
           /\ disk' = r.files
           /\ last' = [ op         |-> "save_session",
                        calls      |-> last.calls,
                        session_id |-> session_id,
                        pre        |-> session,
                        pre_disk   |-> disk,
                        err        |-> r.err ]
    /\ UNCHANGED << session, cache >>

\* a caller loads session_id and goes on with the session returned, if one is
LoadSession(session_id) ==
    /\ \E r \in { load_session(disk, session_id) } :
           /\ session' = IF Raised(r) \/ r.session = None THEN session ELSE Val(r.session)
           /\ last' = [ op         |-> "load_session",
                        calls      |-> last.calls,
                        session_id |-> session_id,
                        pre        |-> session,
                        pre_disk   |-> disk,
                        err        |-> r.err,
                        loaded     |-> r.session ]
    /\ UNCHANGED << cache, disk >>

\* a stand-alone session that grows by add_thought and is saved and loaded under "s",
\* next to a service that is asked about "s"
StoreNext ==
    \/ \E t \in StoreInputs(Len(session.thoughts) + 1) : AddThought(t, None)
    \/ SaveSession(SessionS)
    \/ \E id \in { SessionS, SessionT } : LoadSession(id)
    \/ ProcessThought("a", StoreRequest, Uuid)

SpecStore == Init /\ [][StoreNext]_vars

\* a sessions directory in which something else leaves documents that are no sessions
RecordsNext ==
    \/ \E t \in RecordInputs(Len(session.thoughts) + 1) : AddThought(t, None)
    \/ SaveSession(SessionS)
    \/ \E id \in { SessionS, SessionT }, kind \in RecordKinds : DamageFile(id, kind)
    \/ \E id \in { SessionS, SessionT } : LoadSession(id)

SpecRecords == Init /\ [][RecordsNext]_vars

\* the sessions directory is empty, or holds the record save_session wrote for
\* EarlierSession under "s"
InitContinue ==
    /\ session = NewSession
    /\ cache = [ v \in Services |-> EmptyDict ]
    /\ disk \in { EmptyDict, save_session(EmptyDict, SessionS, EarlierSession).files }
    /\ last = [ op |-> "init", calls |-> 0 ]

\* two service instances that continue session "s"
ContinueNext ==
    \E v \in Services, request \in ContinueRequests : ProcessThought(v, request, Uuid)

SpecContinue == InitContinue /\ [][ContinueNext]_vars

\* one long-lived service instance that continues session "s", starts session "t" or
\* starts a session under a generated id
LongLivedContinueNext ==
    \E request \in ContinueRequests
                      \cup { RequestData(None), RequestData(Some(SessionT)),
                             [ RequestData(Some(SessionS)) EXCEPT
                                 !.total_thoughts = 2, !.next_thought_needed = Some(FALSE) ] } :
        ProcessThought("a", request, Uuid)

SpecLongLivedContinue == InitContinue /\ [][LongLivedContinueNext]_vars

\* add_thought on the stand-alone session, whose log may grow to MaxBranchLog thoughts
AddBranchThought(data) ==
    /\ Len(session.thoughts) < MaxBranchLog
    /\ ListFieldsError(data).kind = "ok"
    /\ \E r \in { add_thought(session, Thought(data), None) } :
           /\ session' = r.s
           /\ last' = [ op      |-> "add_thought",
                        calls   |-> last.calls,
                        thought |-> data,
                        refs    |-> None,
                        pre     |-> session,
                        err     |-> r.err,
                        result  |-> r.thought ]
    /\ UNCHANGED << cache, disk >>

\* something other than the program rewrites the branches field of a saved record
TamperBranches(session_id, branches) ==
    /\ session_id \in DOMAIN disk
    /\ disk[session_id].kind = "ok"
    /\ disk' = [ disk EXCEPT ![session_id].data.branches = branches ]
    /\ last' = [ op |-> "tamper_branches", calls |-> last.calls,
                 session_id |-> session_id, branches |-> branches ]
    /\ UNCHANGED << session, cache >>

\* a session with branches that is saved and loaded under "s"
BranchesNext ==
    \/ \E t \in BranchInputs(Len(session.thoughts) + 1) : AddBranchThought(t)
    \/ SaveSession(SessionS)
    \/ \E branches \in TamperedBranches : TamperBranches(SessionS, branches)
    \/ LoadSession(SessionS)

SpecBranches == Init /\ [][BranchesNext]_vars

\* the sessions directory is empty, or holds a record of session "t" with an
\* assumption in its registry
InitResolve ==
    /\ session = NewSession
    /\ cache = [ v \in Services |-> EmptyDict ]
    /\ disk \in { EmptyDict,
                   save_session(EmptyDict, SessionT, EarlierSession).files,
                   save_session(EmptyDict, SessionT, ScopedSession).files }
    /\ last = [ op |-> "init", calls |-> 0 ]

\* service instance v resolves a scoped id (_resolve_cross_session_assumption)
Resolve(v, scoped_id) ==
    /\ \E r \in { resolve_cross_session_assumption(cache[v], disk, scoped_id) } :
           /\ cache' = [ cache EXCEPT ![v] = r.sessions ]
           /\ last' = [ op           |-> "resolve",
                        calls        |-> last.calls,
                        service      |-> v,
                        scoped_id    |-> scoped_id,
                        pre_cache    |-> cache,
                        pre_disk     |-> disk,
                        err          |-> r.err,
                        was_resolved |-> r.was_resolved ]
    /\ UNCHANGED << session, disk >>

\* a service that resolves scoped ids, directly and while it processes requests, over
\* a directory in which the record of "t" may be damaged
ResolveNext ==
    \/ \E id \in ResolveIds : Resolve("a", id)
    \/ \E request \in ResolveRequests : ProcessThought("a", request, Uuid)
    \/ \E kind \in DamageKinds : DamageFile(SessionT, kind)

SpecResolve == InitResolve /\ [][ResolveNext]_vars

\* two service instances that hold or look up session "t" while a caller of
\* add_thought and save_session writes the record of "t"; the caller's thought that
\* declares A2 aborts on the unknown A1 and leaves A2 in the registry
StaleNext ==
    \/ \E t \in { ThoughtData(Len(session.thoughts) + 1, 1, TRUE),
                  WithInvalidates(WithAssumptions(ThoughtData(Len(session.thoughts) + 1,
                                                              1, TRUE),
                                                  << A2_x_risky >>),
                                  << A1 >>) } :
           AddThought(t, None)
    \/ SaveSession(SessionT)
    \/ \E v \in Services, id \in { T_A1, T_A2 } : Resolve(v, id)
    \/ \E v \in Services : ProcessThought(v, RequestData(Some(SessionT)), Uuid)

SpecStale == InitResolve /\ [][StaleNext]_vars

\* a session whose thoughts declare and refer to assumptions, saved and loaded
RegistryNext ==
    \/ \E t \in RegistryInputs(Len(session.thoughts) + 1) : AddThought(t, None)
    \/ SaveSession(SessionS)
    \/ LoadSession(SessionS)

SpecRegistry == Init /\ [][RegistryNext]_vars

NumberingNext == \E request \in NumberingRequests : ProcessThought("a", request, Uuid)

SpecNumbering == Init /\ [][NumberingNext]_vars

\* a stand-alone session that grows by add_thought, next to a service that continues
\* session "s"
GrowthNext ==
    \/ \E t \in GrowthInputs(Len(session.thoughts) + 1) : AddThought(t, None)
    \/ \E request \in ContinueRequests : ProcessThought("a", request, Uuid)

SpecGrowth == InitContinue /\ [][GrowthNext]_vars

\* add_thought with thoughts whose references may dangle, on logs of every length
DanglingNext ==
    \E t \in DanglingInputs :
        \/ AddThought(t, None)
        \/ AddThoughtToFullLog(t, None)

SpecDangling == Init /\ [][DanglingNext]_vars

\* one session id, drawn from IdInputs, under which a file may exist already
InitIds ==
    /\ session = NewSession
    /\ cache = [ v \in Services |-> EmptyDict ]
    /\ \E id \in IdInputs :
           /\ last = [ op |-> "input", calls |-> 0, session_id |-> id ]
           /\ disk \in { EmptyDict, Put(EmptyDict, id, SavedFile(NewSession)) }

\* a caller hands the id to _validate_session_id
ValidateSessionId(session_id) ==
    /\ last' = [ op         |-> "validate_session_id",
                 calls      |-> last.calls,
                 session_id |-> session_id,
                 err        |-> validate_session_id(session_id) ]
    /\ UNCHANGED << session, cache, disk >>

\* the id is validated, and used to save, to load and to address a request
IdsNext ==
    \/ ValidateSessionId(last.session_id)
    \/ SaveSession(last.session_id)
    \/ LoadSession(last.session_id)
    \/ ProcessThought("a", RequestData(Some(last.session_id)), Uuid)

SpecIds == InitIds /\ [][IdsNext]_vars

---------------------------------------------------------------------------
(* Properties of the thought log (SpecLog) *)

LastIsAddThought == last.op = "add_thought"

DanglingKinds ==
    { "revise_no_thoughts", "revise_not_found", "branch_no_thoughts", "branch_not_found" }

\* the thought numbers carried by the thoughts logged before position i
EarlierNumbers(s, i) == { s.thoughts[j].thought_number : j \in 1..(i - 1) }

\* C1 as stated: every logged thought whose revises_thought is set, or whose
\* branch_from_thought is set, names the number of a thought logged before it.
C1_EverySetReferenceResolves ==
    \A i \in 1..Len(session.thoughts) :
        LET t == session.thoughts[i]
        IN  /\ t.revises_thought # None =>
                   Val(t.revises_thought) \in EarlierNumbers(session, i)
            /\ t.branch_from_thought # None =>
                   Val(t.branch_from_thought) \in EarlierNumbers(session, i)

\* C1 amended: every logged thought that is marked is_revision and has revises_thought
\* set, or that is a branch (branch_from_thought together with a non-empty branch_id),
\* names the number of a thought logged at an earlier position; a reference field set
\* without its mark (no is_revision, no branch_id) is stored unchecked.
C1_MarkedReferenceResolves ==
    \A i \in 1..Len(session.thoughts) :
        LET t == session.thoughts[i]
        IN  /\ (t.is_revision = Some(TRUE) /\ t.revises_thought # None) =>
                   Val(t.revises_thought) \in EarlierNumbers(session, i)
            /\ ( /\ t.branch_from_thought # None
                 /\ t.branch_id # None
                 /\ Val(t.branch_id) # << >> ) =>
                   Val(t.branch_from_thought) \in EarlierNumbers(session, i)

\* C1 witness: a marked revision and a branch have been logged after the thought they name
C1_Witness ==
    /\ Len(session.thoughts) = 2
    /\ session.thoughts[2].is_revision = Some(TRUE)
    /\ session.thoughts[2].revises_thought = Some(session.thoughts[1].thought_number)
    /\ session.thoughts[2].branch_id = Some(<< "b" >>)
    /\ session.thoughts[2].branch_from_thought = Some(session.thoughts[1].thought_number)

---------------------------------------------------------------------------
(* Properties of the assumption ledger (SpecLedger) *)

\* the raw assumption dicts, the dependencies and the invalidations of the last call
Decls == IF last.thought.assumptions = None THEN << >> ELSE Val(last.thought.assumptions).list
Deps ==
    IF last.thought.depends_on_assumptions = None THEN << >>
    ELSE Val(last.thought.depends_on_assumptions).list
Invs ==
    IF last.thought.invalidates_assumptions = None THEN << >>
    ELSE Val(last.thought.invalidates_assumptions).list

DeclaredCritical(d) == IF d.critical = None THEN TRUE ELSE Val(d.critical)

\* d re-declares an id of registry reg with another text or another critical flag
Conflicts(reg, d) ==
    \E k \in 1..Len(reg) :
        /\ reg[k].id = d.id
        /\ (reg[k].text # d.text \/ reg[k].critical # DeclaredCritical(d))

ImmutableKinds == { "text_mismatch", "critical_mismatch" }

\* the errors of the checks that run before the assumptions are upserted
EarlierKinds == DanglingKinds \cup { "depend_not_found" }

\* C3: over every add_thought call, aborted or not, each id of the registry keeps its
\* text and its critical flag; a thought that re-declares a known id with another text
\* or another critical flag makes the call fail and logs nothing, and the error is the
\* immutable-field error unless the reference or dependency check failed first.
C3_TextAndCriticalNeverChange ==
    LastIsAddThought =>
        /\ \A k \in 1..Len(last.pre.assumptions) :
               LET old == last.pre.assumptions[k]
               IN  \E j \in 1..Len(session.assumptions) :
                       /\ session.assumptions[j].id = old.id
                       /\ session.assumptions[j].text = old.text
                       /\ session.assumptions[j].critical = old.critical
        /\ (\E i \in 1..Len(Decls) : Conflicts(last.pre.assumptions, Decls[i])) =>
               /\ last.err.kind # "ok"
               /\ session.thoughts = last.pre.thoughts
               /\ last.err.kind \notin EarlierKinds => last.err.kind \in ImmutableKinds

\* C3 witness: a re-declaration of A1 with another critical flag was rejected and the
\* stored record kept its text and flag
C3_Witness ==
    /\ LastIsAddThought
    /\ last.err.kind = "critical_mismatch"
    /\ \E k \in 1..Len(last.pre.assumptions) :
           /\ last.pre.assumptions[k].id = A1
           /\ last.pre.assumptions[k].critical
           /\ last.pre.assumptions[k].text = << "x" >>
    /\ \E i \in 1..Len(Decls) :
           Decls[i].id = A1 /\ Decls[i].critical = Some(FALSE) /\ Decls[i].text = << "x" >>
    /\ Get(session.assumptions, A1).critical
    /\ Get(session.assumptions, A1).text = << "x" >>

\* C4: when a thought re-declares an id already in the registry with identical text and
\* critical, that entry raises no immutable-field error and, once the assumptions loop
\* is through, the stored record holds the confidence, verifiable, evidence and
\* verification_status of the (last) re-declaration, an omitted field counting as its
\* default (1.0, false, none, none); only an invalidation by the same thought changes
\* the status afterwards.
C4_RedeclarationOverwritesMutableFields ==
    LastIsAddThought =>
        LET consistent ==
                /\ \A i \in 1..Len(Decls) : ~ Conflicts(last.pre.assumptions, Decls[i])
                /\ \A i, j \in 1..Len(Decls) :
                       Decls[i].id = Decls[j].id =>
                           /\ Decls[i].text = Decls[j].text
                           /\ DeclaredCritical(Decls[i]) = DeclaredCritical(Decls[j])
        IN  /\ consistent => last.err.kind \notin ImmutableKinds
            /\ last.err.kind \in { "ok", "invalidate_not_found" } =>
                   \A i \in 1..Len(Decls) :
                       LET d == Decls[i]
                       IN  ( /\ \E k \in 1..Len(last.pre.assumptions) :
                                    last.pre.assumptions[k].id = d.id
                             /\ \A j \in (i + 1)..Len(Decls) : Decls[j].id # d.id ) =>
                           LET now == Get(session.assumptions, d.id)
                               old == Get(last.pre.assumptions, d.id)
                           IN  /\ now.confidence =
                                      (IF d.confidence = None THEN 10 ELSE Val(d.confidence))
                               /\ now.verifiable =
                                      (IF d.verifiable = None THEN FALSE ELSE Val(d.verifiable))
                               /\ now.evidence = d.evidence
                               /\ \/ now.verification_status = d.verification_status
                                  \/ /\ InSeq(d.id, Invs)
                                     /\ now.verification_status = Some("verified_false")
                               /\ (last.err.kind = "ok" /\ InSeq(d.id, Invs)) =>
                                      now.verification_status = Some("verified_false")
                               /\ now.text = old.text
                               /\ now.critical = old.critical

\* C4 witness: A1, stored with every mutable field set, was re-declared with the
\* mutable fields omitted, and the stored record now holds the defaults
C4_Witness ==
    /\ LastIsAddThought
    /\ last.err.kind = "ok"
    /\ Decls = << A1_x >>
    /\ Invs = << >>
    /\ \E k \in 1..Len(last.pre.assumptions) :
           /\ last.pre.assumptions[k].id = A1
           /\ last.pre.assumptions[k].confidence = 3
           /\ last.pre.assumptions[k].verifiable
           /\ last.pre.assumptions[k].evidence = Some(<< "e" >>)
           /\ last.pre.assumptions[k].verification_status = Some("verified_true")
    /\ Get(session.assumptions, A1).confidence = 10
    /\ ~ Get(session.assumptions, A1).verifiable
    /\ Get(session.assumptions, A1).evidence = None
    /\ Get(session.assumptions, A1).verification_status = None

\* C6: an unscoped id of invalidates_assumptions that is neither in the registry before
\* the call nor declared by the thought makes add_thought fail, with the "cannot
\* invalidate" unknown-assumption error when the earlier steps passed; a successful
\* call leaves every unscoped id it invalidates with verification_status verified_false,
\* whatever its status was before or was declared in the same thought, and listed in
\* falsified_assumptions.
C6_InvalidationForcesVerifiedFalse ==
    LastIsAddThought =>
        LET declared == { Decls[i].id : i \in 1..Len(Decls) }
            known == { last.pre.assumptions[k].id : k \in 1..Len(last.pre.assumptions) }
            unscoped == { Invs[i] : i \in { j \in 1..Len(Invs) : ~ HasColon(Invs[j]) } }
            missing == unscoped \ (known \cup declared)
        IN  /\ missing # {} => last.err.kind # "ok"
            /\ (missing # {} /\ last.err.kind \notin (EarlierKinds \cup ImmutableKinds)) =>
                   last.err.kind = "invalidate_not_found" /\ last.err.id \in missing
            /\ last.err.kind = "invalidate_not_found" => missing # {}
            /\ last.err.kind = "ok" =>
                   \A id \in unscoped :
                       /\ \E j \in 1..Len(session.assumptions) :
                              /\ session.assumptions[j].id = id
                              /\ session.assumptions[j].verification_status =
                                     Some("verified_false")
                       /\ InSeq(id, falsified_assumptions(session))

\* C6 witness: A1 was verified_true, the thought declared it verified_true again and
\* invalidated it, and it is now verified_false
C6_Witness ==
    /\ LastIsAddThought
    /\ last.err.kind = "ok"
    /\ Decls = << A1_x_verified >>
    /\ Invs = << A1 >>
    /\ \E k \in 1..Len(last.pre.assumptions) :
           /\ last.pre.assumptions[k].id = A1
           /\ last.pre.assumptions[k].verification_status = Some("verified_true")
    /\ Get(session.assumptions, A1).verification_status = Some("verified_false")
    /\ falsified_assumptions(session) = << A1 >>

---------------------------------------------------------------------------
(* Properties of the dependency check (SpecRefs) *)

KnownBefore == { last.pre.assumptions[k].id : k \in 1..Len(last.pre.assumptions) }

\* the last call's thought is a marked revision of, or a branch from, a number that the
\* log did not hold before the call
LastReferenceMissing ==
    LET t == last.thought
        before == { last.pre.thoughts[i].thought_number : i \in 1..Len(last.pre.thoughts) }
    IN  \/ /\ t.is_revision = Some(TRUE)
           /\ t.revises_thought # None
           /\ Val(t.revises_thought) \notin before
        \/ /\ t.branch_from_thought # None
           /\ t.branch_id # None
           /\ Val(t.branch_id) # << >>
           /\ Val(t.branch_from_thought) \notin before

\* the validated_cross_session_refs of the last call, as a set
Resolved == IF last.refs = None THEN {} ELSE { Val(last.refs)[i] : i \in 1..Len(Val(last.refs)) }

NoDuplicates(seq) == \A i, j \in 1..Len(seq) : seq[i] = seq[j] => i = j

\* C5: add_thought raises the "cannot depend on" unknown-assumption error exactly when
\* the reference check passed and some unscoped entry of depends_on_assumptions is not
\* a key of the registry as it stood before the call; the thought's own assumptions are
\* not yet upserted then, so declaring Ak and depending on Ak in one thought is
\* rejected with nothing upserted; a dependency on an id recorded earlier passes and no
\* unscoped id ever enters the unresolved references.
C5_DependencyCheckedBeforeUpsert ==
    LastIsAddThought =>
        LET missing == { i \in 1..Len(Deps) :
                           ~ HasColon(Deps[i]) /\ Deps[i] \notin KnownBefore }
        IN  /\ (last.err.kind = "depend_not_found") <=>
                   (missing # {} /\ ~ LastReferenceMissing)
            /\ missing # {} =>
                   /\ last.err.kind \in DanglingKinds \cup { "depend_not_found" }
                   /\ session.thoughts = last.pre.thoughts
                   /\ session.assumptions = last.pre.assumptions
            /\ last.err.kind = "depend_not_found" =>
                   \E i \in missing :
                       /\ last.err.id = Deps[i]
                       /\ \A j \in missing : i <= j
            /\ \A i \in 1..Len(session.unresolved_refs) :
                   HasColon(session.unresolved_refs[i])

\* C5 witness: a thought that declared A1 and depended on A1 was rejected on an empty
\* registry, and one depending on an A1 recorded earlier was accepted
C5_Witness ==
    /\ LastIsAddThought
    /\ last.err.kind = "depend_not_found"
    /\ last.err.id = A1
    /\ Decls = << A1_x >>
    /\ Deps = << A1 >>
    /\ last.pre.assumptions = << >>
    /\ session.assumptions = << >>

\* C8: after a successful add_thought every scoped entry of depends_on_assumptions
\* outside the validated references is in the unresolved references, as the full scoped
\* string; an entry inside the validated references is not added by the call; the call
\* only appends to the list; and in every state the list holds no duplicate.
C8_UnresolvedRecordedOnce ==
    /\ NoDuplicates(session.unresolved_refs)
    /\ (LastIsAddThought /\ last.err.kind = "ok") =>
           LET before == last.pre.unresolved_refs
               after == session.unresolved_refs
           IN  /\ Len(before) <= Len(after)
               /\ SubSeq(after, 1, Len(before)) = before
               /\ \A i \in 1..Len(Deps) :
                      HasColon(Deps[i]) =>
                          /\ Deps[i] \notin Resolved => InSeq(Deps[i], after)
                          /\ (Deps[i] \in Resolved /\ ~ InSeq(Deps[i], before)) =>
                                 ~ InSeq(Deps[i], after)
               /\ \A k \in (Len(before) + 1)..Len(after) :
                      /\ InSeq(after[k], Deps)
                      /\ HasColon(after[k])
                      /\ after[k] \notin Resolved

\* C8 witness: s:A1, already unresolved, was named twice more by one thought and is
\* still recorded once; a validated s:A1 was not recorded
C8_Witness ==
    /\ LastIsAddThought
    /\ last.err.kind = "ok"
    /\ last.pre.unresolved_refs = << S_A1 >>
    /\ Deps = << S_A1, S_A1 >>
    /\ last.refs = None
    /\ session.unresolved_refs = << S_A1 >>
    /\ Len(session.thoughts) = 2
    /\ session.thoughts[1].depends_on_assumptions = Some(<< S_A1 >>)

---------------------------------------------------------------------------
(* Properties of the service (SpecService) *)

LastIsProcessThought == last.op = "process_thought"

\* the session of the last request, as the serving instance holds it now
Current == cache[last.service][last.session_id]

ScopedInvs == SelectSeq(Invs, HasColon)

\* C7: a call of add_thought whose thought has scoped entries in
\* invalidates_assumptions appends, if it is accepted, exactly one warning per scoped
\* entry, in order, to the session's warnings; accepted or aborted, it changes no
\* assumption record on account of them: a record of the registry that the thought
\* neither declares nor invalidates by its unscoped id is what it was (the record
\* whose id is the local part of a scoped entry included), and the session files and
\* the sessions the services hold are what they were.
C7_ScopedInvalidationOnlyWarns ==
    [][ (LastIsAddThought /\ ScopedInvs # << >>)' =>
            /\ (last.err.kind = "ok")' =>
                   session'.cross_session_warnings =
                       session.cross_session_warnings \o
                           [ i \in 1..Len(ScopedInvs') |->
                               << "Cannot invalidate cross-session assumption " >>
                                   \o ScopedInvs'[i]
                                   \o << ": cross-session invalidation not supported" >> ]
            /\ \A k \in 1..Len(session.assumptions) :
                   LET record == session.assumptions[k]
                   IN  ( /\ \A i \in 1..Len(Decls') : Decls'[i].id # record.id
                         /\ ~ InSeq(record.id, Invs') ) =>
                           /\ k <= Len(session'.assumptions)
                           /\ session'.assumptions[k] = record
            /\ disk' = disk
            /\ cache' = cache ]_vars

\* C7 witness: the session, holding A1, saved as "s" with it and held with it by a
\* service, accepted a thought that invalidates s:A1; it got the warning, and A1 is
\* not falsified in the registry, in the file or in the service's copy
C7_Witness ==
    /\ SessionS \in DOMAIN cache["a"]
    /\ HasKey(cache["a"][SessionS].assumptions, A1)
    /\ Get(cache["a"][SessionS].assumptions, A1).verification_status = None
    /\ LastIsAddThought
    /\ last.err.kind = "ok"
    /\ Invs = << S_A1 >>
    /\ HasKey(last.pre.assumptions, A1)
    /\ Len(session.cross_session_warnings) = Len(last.pre.cross_session_warnings) + 1
    /\ HasKey(session.assumptions, A1)
    /\ Get(session.assumptions, A1).verification_status = None
    /\ SessionS \in DOMAIN disk
    /\ disk[SessionS].kind = "ok"
    /\ Len(disk[SessionS].data.assumptions) = 1
    /\ disk[SessionS].data.assumptions[1].id = A1
    /\ disk[SessionS].data.assumptions[1].verification_status = None

\* C9 as stated: process_thought never raises on account of a scoped entry of
\* depends_on_assumptions; whatever the prefix and whatever the state of the target's
\* record, the resolution ends (resolved or not) and the call goes on to add_thought.
C9_ScopedDependencyNeverRaises ==
    LastIsProcessThought => last.stage # "resolve"

\* C10: when add_thought aborts inside process_thought, save_session is not called and
\* every session file is what it was before the call.
C10_AbortedAppendIsNotSaved ==
    (LastIsProcessThought /\ last.stage = "add_thought") =>
        /\ last.err.kind # "ok"
        /\ ~ last.saved
        /\ disk = last.pre_disk

\* C10 witness: with one thought saved for session s, a request for s that revises a
\* thought 2 the log does not hold aborted in add_thought; the file of s is the one
\* the first request wrote
C10_Witness ==
    /\ LastIsProcessThought
    /\ last.stage = "add_thought"
    /\ last.err.kind = "revise_not_found"
    /\ last.session_id = SessionS
    /\ ~ last.saved
    /\ SessionS \in DOMAIN disk
    /\ disk[SessionS].kind = "ok"
    /\ Len(disk[SessionS].data.thoughts) = 1
    /\ Len(Current.thoughts) = 1
    /\ disk = last.pre_disk

---------------------------------------------------------------------------
(* Properties of aborted appends (SpecAbort) *)

LastAborted == LastIsAddThought /\ last.err.kind # "ok"

\* C11: when add_thought raises, at whichever step, the log is what it was before the
\* call: the same Thought objects in the same order (so the same count and the same
\* thought numbers) and the same branch index (the same branch ids in the same order,
\* each with the same members).
C11_AbortLeavesLogUnchanged ==
    LastAborted =>
        /\ session.thoughts = last.pre.thoughts
        /\ thought_count(session) = thought_count(last.pre)
        /\ ThoughtNumbers(session) = ThoughtNumbers(last.pre)
        /\ session.branches = last.pre.branches

\* C11 witness: a thought that re-declared A1 and invalidated an unknown A2
\* aborted at the last step before the append, on a session holding two thoughts and a
\* branch; the registry changed, the log and the branch index did not
C11_Witness ==
    /\ LastAborted
    /\ last.err.kind = "invalidate_not_found"
    /\ Len(last.pre.thoughts) = 2
    /\ Len(last.pre.branches) = 1
    /\ session.assumptions # last.pre.assumptions
    /\ session.thoughts = last.pre.thoughts
    /\ session.branches = last.pre.branches

\* C12 as stated: when add_thought raises, nothing of the session differs from before
\* the call except the four mutable fields of assumptions that were in the registry
\* already: the registry has the same keys in the same order with the same text and
\* critical flag, the unresolved references and the warnings are the same lists, and
\* the log is the same.
C12_AbortChangesOnlyMutableFields ==
    LastAborted =>
        /\ Len(session.assumptions) = Len(last.pre.assumptions)
        /\ \A k \in 1..Len(last.pre.assumptions) :
               /\ session.assumptions[k].id = last.pre.assumptions[k].id
               /\ session.assumptions[k].text = last.pre.assumptions[k].text
               /\ session.assumptions[k].critical = last.pre.assumptions[k].critical
        /\ session.unresolved_refs = last.pre.unresolved_refs
        /\ session.cross_session_warnings = last.pre.cross_session_warnings
        /\ session.thoughts = last.pre.thoughts
        /\ session.branches = last.pre.branches

---------------------------------------------------------------------------
(* Properties of a long-lived service (SpecLongLived) *)

\* the document held by the record of a session, an empty session's if there is none
Persisted(files, session_id) ==
    IF session_id \in DOMAIN files THEN files[session_id].data
    ELSE SessionData(NewSession)

---------------------------------------------------------------------------
(* Properties of logged thoughts (SpecLedger) *)

\* C14 as stated: a call of add_thought changes no thought that is in the log already:
\* every field of it, the confidence, verifiable, evidence and verification_status of
\* the assumptions in its assumptions list included, is after the call what it was
\* before the call.
C14_LoggedThoughtNeverChanges ==
    LastIsAddThought =>
        \A i \in 1..Len(last.pre.thoughts) :
            Settle(session, session.thoughts[i]) = Settle(last.pre, last.pre.thoughts[i])

---------------------------------------------------------------------------
(* Properties of total_thoughts (SpecTotals) *)

\* the largest thought number among the first i thoughts of a log
MaxNumberUpTo(log, i) ==
    CHOOSE m \in { log[j].thought_number : j \in 1..i } :
        \A j \in 1..i : log[j].thought_number <= m

\* C15 as stated: along the log of every session, the total_thoughts each append
\* resulted in is at least the largest thought_number appended up to then, and is not
\* smaller than the total_thoughts the append before it resulted in.
C15_TotalCoversEveryNumberAndNeverFalls ==
    \A v \in Services : \A x \in DOMAIN cache[v] :
        LET log == cache[v][x].thoughts
        IN  \A i \in 1..Len(log) :
                /\ log[i].total_thoughts >= MaxNumberUpTo(log, i)
                /\ i > 1 => log[i].total_thoughts >= log[i - 1].total_thoughts

\* the thought number process_thought gives the last request
NumberOfLastRequest ==
    IF last.thought.thought_number = None THEN thought_count(last.before) + 1
    ELSE Val(last.thought.thought_number)

\* C16: the thought a successful request appends carries total_thoughts =
\* max(requested total_thoughts, thought_number), which is neither below its number nor
\* below the requested total, and the response reports the same value; every thought in
\* every log has total_thoughts >= thought_number.
C16_TotalIsMaxOfRequestedAndNumber ==
    /\ (LastIsProcessThought /\ last.stage = "done") =>
           LET appended == Current.thoughts[Len(Current.thoughts)]
               expected == Max(last.thought.total_thoughts, NumberOfLastRequest)
           IN  /\ Len(Current.thoughts) = Len(last.before.thoughts) + 1
               /\ appended.thought_number = NumberOfLastRequest
               /\ appended.total_thoughts = expected
               /\ appended.total_thoughts >= appended.thought_number
               /\ appended.total_thoughts >= last.thought.total_thoughts
               /\ last.response.total_thoughts = expected
               /\ last.response.thought_number = NumberOfLastRequest
    /\ \A v \in Services : \A x \in DOMAIN cache[v] :
           \A i \in 1..Len(cache[v][x].thoughts) :
               cache[v][x].thoughts[i].total_thoughts >= cache[v][x].thoughts[i].thought_number

\* C16 witness: the first request (number 2, total 1) was logged with its total raised
\* to 2; the second (number defaulted to 2, total 3) kept its total of 3 in the log
\* and in the response
C16_Witness ==
    /\ LastIsProcessThought
    /\ last.stage = "done"
    /\ Len(Current.thoughts) = 2
    /\ Current.thoughts[1].thought_number = 2
    /\ Current.thoughts[1].total_thoughts = 2
    /\ last.thought.thought_number = None
    /\ last.thought.total_thoughts = 3
    /\ Current.thoughts[2].thought_number = 2
    /\ Current.thoughts[2].total_thoughts = 3
    /\ last.response.total_thoughts = 3

---------------------------------------------------------------------------
(* Properties of saved and loaded sessions (SpecStore) *)

\* the parts of a session a round trip is to keep: the thought numbers in log order,
\* the registry, the branch ids in order, the unresolved references and the warnings
Kept(s) ==
    [ numbers     |-> [ i \in 1..Len(s.thoughts) |-> s.thoughts[i].thought_number ],
      assumptions |-> s.assumptions,
      branch_ids  |-> branch_ids(s),
      unresolved  |-> s.unresolved_refs,
      warnings    |-> s.cross_session_warnings ]

\* C17 as stated: once save_session(id, S) has written S, whatever add_thought calls S
\* came from, load_session(id) returns a session with the same thoughts in the same
\* order, the same assumption map, the same branch ids in the same order and the same
\* unresolved-reference and warning lists.
C17_LoadAfterSaveReturnsTheSession ==
    (last.op = "save_session" /\ last.err.kind = "ok") =>
        LET loaded == load_session(disk, last.session_id)
        IN  /\ loaded.err.kind = "ok"
            /\ loaded.session # None
            /\ Kept(Val(loaded.session)) = Kept(session)

---------------------------------------------------------------------------
(* Properties of damaged records (SpecRecords) *)

\* C18 as stated: when the file of a valid session id holds a document that is no
\* session (text that is no JSON, a top-level list, a thoughts field that is a string
\* or null, a thoughts element that is a number, an assumptions field that is a list,
\* an assumption with an invalid field), load_session raises nothing and returns None.
C18_DamagedRecordLoadsAsAbsent ==
    ( /\ last.op = "load_session"
      /\ last.session_id \in DOMAIN last.pre_disk
      /\ last.pre_disk[last.session_id].kind \in RecordKinds ) =>
        /\ last.err.kind = "ok"
        /\ last.loaded = None

---------------------------------------------------------------------------
(* Properties of session ids (SpecIds) *)

Invalid(session_id) == validate_session_id(session_id).kind # "ok"

\* C19 as stated: _validate_session_id accepts a string exactly when it is not empty,
\* has at most 128 characters, and each of its characters is an ASCII letter, a digit,
\* a hyphen or an underscore; it raises for every other string.
C19_AcceptsExactlyTheWellFormedIds ==
    last.op = "validate_session_id" =>
        ( (last.err.kind = "ok") <=>
              /\ Len(last.session_id) > 0
              /\ Len(last.session_id) <= MaxSessionIdLength
              /\ \A i \in 1..Len(last.session_id) : last.session_id[i] \in SessionIdChars )

\* C20: save_session, load_session and process_thought called with a session id that
\* _validate_session_id rejects raise the error of _validate_session_id and touch no
\* file: the sessions directory is what it was, even where a file of that name
\* exists; load_session returns nothing, and process_thought saves nothing, answers
\* nothing and leaves the service's sessions as they were.
C20_InvalidIdTouchesNoFile ==
    ( /\ last.op \in { "save_session", "load_session", "process_thought" }
      /\ Invalid(last.session_id) ) =>
        /\ last.err = validate_session_id(last.session_id)
        /\ disk = last.pre_disk
        /\ last.op = "load_session" => (last.loaded = None /\ session = last.pre)
        /\ last.op = "process_thought" =>
               /\ last.stage = "session"
               /\ ~ last.saved
               /\ last.response = NoResponse
               /\ cache = last.pre_cache

\* C20 witness: a request for session "./" failed on the id, although a file of that
\* name was in the directory; the file was not touched
C20_Witness ==
    /\ last.op = "process_thought"
    /\ last.session_id = << ".", "/" >>
    /\ last.err.kind = "session_id_invalid"
    /\ last.session_id \in DOMAIN disk
    /\ disk = last.pre_disk
    /\ cache["a"] = EmptyDict

---------------------------------------------------------------------------
(* Properties of continued sessions (SpecContinue) *)

\* the last request was served by an instance that did not hold the session and found
\* a record of it written by save_session
ContinuedFromRecord ==
    /\ LastIsProcessThought
    /\ last.session_id \notin DOMAIN last.pre_cache[last.service]
    /\ last.session_id \in DOMAIN last.pre_disk
    /\ last.pre_disk[last.session_id].kind = "ok"

\* C21: after a successful process_thought on a session, load_session of the session's
\* record returns a session equal to the one the serving instance holds (thoughts in
\* order, assumptions, branch index, unresolved references, warnings); and an instance
\* that did not hold the session and continues it from its record answers with a
\* history length, and for a request without thought_number with a thought number, of
\* the number of thoughts in the record plus one.
C21_RecordEqualsSessionAndIsContinued ==
    (LastIsProcessThought /\ last.stage = "done") =>
        /\ load_session(disk, last.session_id) = [ err |-> NoError, session |-> Some(Current) ]
        /\ ContinuedFromRecord =>
               /\ last.response.thought_history_length
                      = Len(last.pre_disk[last.session_id].data.thoughts) + 1
               /\ last.thought.thought_number = None =>
                      last.response.thought_number
                          = Len(last.pre_disk[last.session_id].data.thoughts) + 1

\* C21 witness: instance "b", which had never seen session "s", continued it from the
\* record instance "a" had written (the thought and the assumption A1 of an earlier
\* record, and a branch thought of "a"): its thought is the third, and the record now
\* loads to the session "b" holds
C21_Witness ==
    /\ LastIsProcessThought
    /\ last.stage = "done"
    /\ last.service = "b"
    /\ last.session_id = SessionS
    /\ ContinuedFromRecord
    /\ SessionS \in DOMAIN cache["a"]
    /\ Len(cache["a"][SessionS].thoughts) = 2
    /\ last.thought.thought_number = None
    /\ last.response.thought_number = 3
    /\ last.response.thought_history_length = 3
    /\ HasKey(Current.assumptions, A1)
    /\ branch_ids(Current) = << << "b" >> >>
    /\ load_session(disk, SessionS).session = Some(Current)

---------------------------------------------------------------------------
(* Properties of requests that meet a damaged record (SpecService) *)

\* the sessions directory without the record of session_id
Without(files, session_id) ==
    [ k \in (DOMAIN files) \ { session_id } |-> files[k] ]

\* the last request named a session its instance did not hold and whose record was
\* damaged
MetDamagedRecord ==
    /\ LastIsProcessThought
    /\ last.session_id \notin DOMAIN last.pre_cache[last.service]
    /\ last.session_id \in DOMAIN last.pre_disk
    /\ last.pre_disk[last.session_id].kind \in DamageKinds

\* the same request served by the same instance with no record of the session in the
\* directory
AsIfNoRecord ==
    process_thought(last.pre_cache[last.service],
                    Without(last.pre_disk, last.session_id),
                    ThoughtRequest(last.thought), Uuid)

\* C22 as stated: a request that names a session whose record is damaged (text that is
\* no JSON, or a document of the wrong shape) is served exactly as if there were no
\* record: the error, the response and the instance's sessions are the same, and
\* where that request succeeds it raises nothing, answers from an empty session
\* (thought number 1 when none is given, history length 1, no assumptions) and its
\* save replaces the damaged record.
C22_DamagedRecordIsServedAsNoRecord ==
    MetDamagedRecord =>
        /\ last.err = AsIfNoRecord.err
        /\ last.response = AsIfNoRecord.response
        /\ cache[last.service] = AsIfNoRecord.sessions
        /\ AsIfNoRecord.stage = "done" =>
               /\ last.err.kind = "ok"
               /\ last.before = NewSession
               /\ last.response.thought_history_length = 1
               /\ last.thought.thought_number = None => last.response.thought_number = 1
               /\ last.response.all_assumptions = << >>
               /\ disk = AsIfNoRecord.files
               /\ disk[last.session_id] = SavedFile(Current)

---------------------------------------------------------------------------
(* Properties of the branch index (SpecBranches) *)

\* both branch fields of the thought are set
BothBranchFieldsSet(t) == t.branch_from_thought # None /\ t.branch_id # None

\* both are set and the branch_id is not the empty string
BranchWithId(t) == BothBranchFieldsSet(t) /\ Val(t.branch_id) # << >>

\* the positions in the log, in order, of the thoughts that meet IsBranch and carry b
PositionsOf(s, b, IsBranch(_)) ==
    SelectSeq([ i \in 1..Len(s.thoughts) |-> i ],
              LAMBDA i : IsBranch(s.thoughts[i]) /\ s.thoughts[i].branch_id = Some(b))

\* the branch index of s is what a scan of the log for the thoughts that meet IsBranch
\* gives: an entry for each id such a thought carries and for no other, each entry
\* the positions of those thoughts in log order, the entries in the order in which
\* the ids were first used
IndexIsScanOf(s, IsBranch(_)) ==
    /\ \A i \in 1..Len(s.thoughts) :
           IsBranch(s.thoughts[i]) =>
               \E k \in 1..Len(s.branches) : Some(s.branches[k].id) = s.thoughts[i].branch_id
    /\ \A k \in 1..Len(s.branches) :
           /\ s.branches[k].members # << >>
           /\ s.branches[k].members = PositionsOf(s, s.branches[k].id, IsBranch)
    /\ \A j, k \in 1..Len(s.branches) :
           j < k => /\ s.branches[j].id # s.branches[k].id
                    /\ s.branches[j].members[1] < s.branches[k].members[1]

\* C23 as stated: in every state reached by add_thought and load_session the branch
\* index has, for each branch id, exactly the logged thoughts that have both branch
\* fields set and carry that id, in log order, and lists the ids in the order of their
\* first use.
C23_IndexHoldsThoughtsWithBothFields == IndexIsScanOf(session, BothBranchFieldsSet)

\* C23 amended: the same, for the thoughts that have both branch fields set and a
\* branch_id that is not the empty string; a thought with an empty branch_id, or with
\* only one of the two fields, never creates or extends an entry.
C23_IndexHoldsThoughtsWithBranchId == IndexIsScanOf(session, BranchWithId)

\* C23 witness: a loaded session whose first thought carries branch_id "b" without
\* branch_from_thought and whose next thoughts are branches "c" and "b": the index
\* lists "c" before "b", and "b" holds the third thought only
C23_Witness ==
    /\ last.op = "load_session"
    /\ last.loaded = Some(session)
    /\ Len(session.thoughts) = 3
    /\ session.thoughts[1].branch_id = Some(<< "b" >>)
    /\ session.thoughts[1].branch_from_thought = None
    /\ session.branches = << [ id |-> << "c" >>, members |-> << 2 >> ],
                             [ id |-> << "b" >>, members |-> << 3 >> ] >>

\* the sessions directory with the branches field of a record replaced
WithBranchesField(files, session_id, branches) ==
    [ files EXCEPT ![session_id].data.branches = branches ]

\* C24: the session load_session returns for a record has the record's thoughts in
\* the record's order, and its branch index is the scan of those thoughts: the same
\* record with any other branches field (an empty one, one naming a branch no thought
\* carries, the one save_session wrote) loads to the same session.
C24_LoadRescansTheThoughts ==
    (last.op = "load_session" /\ last.loaded # None) =>
        LET data == last.pre_disk[last.session_id].data
            s == Val(last.loaded)
        IN  /\ Len(s.thoughts) = Len(data.thoughts)
            /\ \A i \in 1..Len(s.thoughts) :
                   s.thoughts[i] = Thought(SavedThoughtArguments(data.thoughts[i]))
            /\ IndexIsScanOf(s, BranchWithId)
            /\ \A branches \in TamperedBranches \cup { SessionData(s).branches } :
                   load_session(WithBranchesField(last.pre_disk, last.session_id, branches),
                                last.session_id).session = last.loaded

\* C24 witness: a record whose branches field names only a branch "z" of thought 1,
\* and whose second and third thoughts are branches "b" and "c", was loaded: the index
\* of the loaded session has "b" and "c" and no "z"
C24_Witness ==
    /\ last.op = "load_session"
    /\ last.loaded = Some(session)
    /\ last.pre_disk[SessionS].data.branches = << [ id |-> << "z" >>, numbers |-> << 1 >> ] >>
    /\ [ i \in 1..Len(session.thoughts) |-> session.thoughts[i].thought_number ]
           = << 1, 2, 3 >>
    /\ session.branches = << [ id |-> << "b" >>, members |-> << 2 >> ],
                             [ id |-> << "c" >>, members |-> << 3 >> ] >>

---------------------------------------------------------------------------
(* Properties of the resolver (SpecResolve) *)

\* the text of the last resolved id before its first colon, and the text after it
TargetOfLast == SubSeq(last.scoped_id, 1, FirstColon(last.scoped_id) - 1)
LocalOfLast ==
    SubSeq(last.scoped_id, FirstColon(last.scoped_id) + 1, Len(last.scoped_id))

\* the target session was in the instance's cache when the resolver was called
TargetWasCached == TargetOfLast \in DOMAIN last.pre_cache[last.service]

\* what load_session gave, or would have given, for the target's record
TargetLoad == load_session(last.pre_disk, TargetOfLast)

TargetWasLoadable == TargetLoad.err.kind = "ok" /\ TargetLoad.session # None

\* the target session as the lookup saw it
TargetAtLookup ==
    IF TargetWasCached THEN last.pre_cache[last.service][TargetOfLast]
    ELSE Val(TargetLoad.session)

\* C25: the resolver answers resolved = true for a scoped id exactly when the session
\* named before the first colon is in the instance's cache or loads from its record,
\* and the text after the first colon is a key of that session's registry at that
\* moment; and a request whose dependencies were resolved has not been appended to
\* any session by then (the log of its session is what it was before the call).
C25_ResolvedIffKnownInAvailableTarget ==
    /\ (last.op = "resolve" /\ HasColon(last.scoped_id)) =>
           ( last.was_resolved <=>
                 /\ TargetWasCached \/ TargetWasLoadable
                 /\ LocalOfLast \in Keys(TargetAtLookup.assumptions) )
    /\ ( /\ LastIsProcessThought
         /\ last.stage \notin { "session" }
         /\ Truthy(ThoughtRequest(last.thought).depends_on_assumptions) ) =>
           Current.thoughts = last.before.thoughts

\* C25 witness: "t:t:A1" was resolved against the record of "t", whose registry has
\* the key "t:A1", and found
C25_Witness ==
    /\ last.op = "resolve"
    /\ last.scoped_id = T_T_A1
    /\ ~ TargetWasCached
    /\ TargetWasLoadable
    /\ last.was_resolved

\* C26: a call of the resolver leaves the sessions directory as it was and every
\* session the instance already held as it was; the one change is that a target
\* session that was not held and loads from its record is held afterwards, as
\* loaded; when the load returns nothing or raises, the cache is what it was.
C26_ResolveOnlyCachesTheLoadedTarget ==
    (last.op = "resolve" /\ HasColon(last.scoped_id)) =>
        /\ disk = last.pre_disk
        /\ \A v \in Services \ { last.service } : cache[v] = last.pre_cache[v]
        /\ \A id \in DOMAIN last.pre_cache[last.service] :
               /\ id \in DOMAIN cache[last.service]
               /\ cache[last.service][id] = last.pre_cache[last.service][id]
        /\ IF ~ TargetWasCached /\ TargetWasLoadable
           THEN cache[last.service]
                    = Put(last.pre_cache[last.service], TargetOfLast, Val(TargetLoad.session))
           ELSE cache[last.service] = last.pre_cache[last.service]

\* C26 witness: "t:A2" was resolved against the record of "t", which has no A2: the
\* answer is no, the record is what it was, and the instance now holds "t" as loaded
C26_Witness ==
    /\ last.op = "resolve"
    /\ last.scoped_id = T_A2
    /\ ~ last.was_resolved
    /\ ~ TargetWasCached
    /\ TargetWasLoadable
    /\ disk = last.pre_disk
    /\ cache["a"][SessionT] = Val(load_session(disk, SessionT).session)
    /\ HasKey(cache["a"][SessionT].assumptions, A1)

---------------------------------------------------------------------------
(* Properties of the ids in the registry (SpecRegistry) *)

\* C27 as stated: in every state the keys of the session's registry, and the id of
\* every assumption record in it and in its saved record, have no colon.
C27_RegistryHoldsLocalIdsOnly ==
    /\ \A i \in 1..Len(session.assumptions) : ~ HasColon(session.assumptions[i].id)
    /\ \A id \in DOMAIN disk :
           \A i \in 1..Len(disk[id].data.assumptions) :
               ~ HasColon(disk[id].data.assumptions[i].id)

---------------------------------------------------------------------------
(* Properties of thought numbers and next_thought_needed (SpecNumbering) *)

\* the thoughts of the log carry the numbers 1, 2, ... in log order
NumberedInOrder(log) == \A i \in 1..Len(log) : log[i].thought_number = i

\* C28 as stated: in every state no two thoughts of a session's log carry the same
\* thought_number.
C28_ThoughtNumbersAreUnique ==
    \A v \in Services : \A x \in DOMAIN cache[v] :
        LET log == cache[v][x].thoughts
        IN  \A i, j \in 1..Len(log) :
                i # j => log[i].thought_number # log[j].thought_number

\* C29: the thought a successful request appends, and the response, carry the number
\* of thoughts in the log before the call plus one when the request omits
\* thought_number, and the requested number when it gives one; a request without
\* thought_number to a log numbered 1, 2, ..., k leaves it numbered 1, 2, ..., k + 1
\* when it succeeds and leaves the log as it was when it fails.
C29_OmittedNumberIsCountPlusOne ==
    LastIsProcessThought =>
        LET given == last.thought.thought_number
            before == last.before.thoughts
            log == Current.thoughts
        IN  /\ last.stage = "done" =>
                   /\ log = Append(before, log[Len(log)])
                   /\ log[Len(log)].thought_number
                          = IF given = None THEN Len(before) + 1 ELSE Val(given)
                   /\ last.response.thought_number = log[Len(log)].thought_number
            /\ last.stage # "done" => log = before
            /\ (given = None /\ NumberedInOrder(before)) => NumberedInOrder(log)

\* C29 witness: after a request numbered 2 and a request that failed, a request
\* without thought_number was numbered 2, the count of the log before it plus one
C29_Witness ==
    /\ LastIsProcessThought
    /\ last.stage = "done"
    /\ last.calls = 3
    /\ last.thought.thought_number = None
    /\ Len(last.before.thoughts) = 1
    /\ last.before.thoughts[1].thought_number = 2
    /\ last.response.thought_number = 2
    /\ Len(Current.thoughts) = 2

\* C30: the thought a successful request appends, and the response, carry
\* next_thought_needed = (thought number < requested total_thoughts) when the request
\* omits next_thought_needed, and the requested value when it gives one.
C30_OmittedNeededIsNumberBelowTotal ==
    (LastIsProcessThought /\ last.stage = "done") =>
        LET appended == Current.thoughts[Len(Current.thoughts)]
            expected ==
                IF last.thought.next_thought_needed = None
                THEN appended.thought_number < last.thought.total_thoughts
                ELSE Val(last.thought.next_thought_needed)
        IN  /\ appended.next_thought_needed = expected
            /\ last.response.next_thought_needed = expected

\* C30 witness: the first request gave next_thought_needed = false with number 2 of
\* 3 and it was kept; the second omitted it with number 2 of 2 and got false; the
\* third omitted it with number 3 and a requested total of 2 and got false, its total
\* raised to 3
C30_Witness ==
    /\ LastIsProcessThought
    /\ last.stage = "done"
    /\ Len(Current.thoughts) = 3
    /\ Current.thoughts[1].thought_number = 2
    /\ Current.thoughts[1].total_thoughts = 3
    /\ ~ Current.thoughts[1].next_thought_needed
    /\ Current.thoughts[2].thought_number = 2
    /\ Current.thoughts[2].total_thoughts = 2
    /\ ~ Current.thoughts[2].next_thought_needed
    /\ last.thought.next_thought_needed = None
    /\ last.thought.total_thoughts = 2
    /\ last.response.thought_number = 3
    /\ last.response.total_thoughts = 3
    /\ ~ last.response.next_thought_needed

---------------------------------------------------------------------------
(* Properties of growth (SpecGrowth) *)

\* session t is session s after zero or more appends: the log of s is the front part
\* of the log of t, and every id of the registry of s is in the registry of t
GrewFrom(s, t) ==
    /\ Len(s.thoughts) <= Len(t.thoughts)
    /\ SubSeq(t.thoughts, 1, Len(s.thoughts)) = s.thoughts
    /\ Keys(s.assumptions) \subseteq Keys(t.assumptions)

\* C31: every call of add_thought and process_thought leaves each session with its
\* earlier thoughts in place and in order and with every id its registry had; a
\* successful call makes the log of its session exactly one thought longer, the new
\* thought (the one the call was given, with its number) last, and a failed call
\* leaves the log as long as it was.
C31_LogAndRegistryOnlyGrow ==
    [][ /\ GrewFrom(session, session')
        /\ \A v \in Services : \A x \in DOMAIN cache[v] :
               /\ x \in DOMAIN cache'[v]
               /\ GrewFrom(cache[v][x], cache'[v][x])
        /\ last'.op = "add_thought" =>
               session'.thoughts = IF last'.err.kind = "ok"
                                   THEN Append(session.thoughts, last'.result)
                                   ELSE session.thoughts
        /\ last'.op = "process_thought" =>
               LET log == cache'[last'.service][last'.session_id].thoughts
               IN  /\ GrewFrom(last'.before, cache'[last'.service][last'.session_id])
                   /\ Len(log) = Len(last'.before.thoughts)
                                     + (IF last'.stage = "done" THEN 1 ELSE 0)
                   /\ last'.stage = "done" =>
                          /\ log[Len(log)].thought = last'.thought.thought
                          /\ log[Len(log)].thought_number = last'.response.thought_number
      ]_vars

\* C31 witness: the service appended a third thought to a session whose registry
\* holds A1, and the stand-alone session has two thoughts and two assumptions, one of
\* them falsified
C31_Witness ==
    /\ LastIsProcessThought
    /\ last.stage = "done"
    /\ Len(last.before.thoughts) = 2
    /\ Len(Current.thoughts) = 3
    /\ HasKey(Current.assumptions, A1)
    /\ Len(session.thoughts) = 2
    /\ Keys(session.assumptions) = { A1, A2 }
    /\ falsified_assumptions(session) # << >>

---------------------------------------------------------------------------
(* Properties of the derived lists (SpecLedger) *)

\* the entries of a sequence, as a set
Range(seq) == { seq[i] : i \in 1..Len(seq) }

\* C32: in every state risky_assumptions lists, each once, exactly the ids of the
\* registry whose record is critical, has a confidence below 0.7 and a status other
\* than verified_true, and falsified_assumptions exactly the ids whose status is
\* verified_false; a record with confidence 0.7 is not listed as risky, and a critical
\* record below 0.7 that was invalidated is in both lists.
C32_RiskyAndFalsifiedAreTheDerivedSets ==
    LET reg == session.assumptions
        risky == risky_assumptions(session)
        falsified == falsified_assumptions(session)
    IN  /\ Range(risky)
               = { reg[i].id : i \in { j \in 1..Len(reg) :
                                          /\ reg[j].critical
                                          /\ reg[j].confidence < 7
                                          /\ reg[j].verification_status
                                                 # Some("verified_true") } }
        /\ Range(falsified)
               = { reg[i].id : i \in { j \in 1..Len(reg) :
                                          reg[j].verification_status
                                              = Some("verified_false") } }
        /\ NoDuplicates(risky)
        /\ NoDuplicates(falsified)
        /\ \A i \in 1..Len(reg) :
               /\ reg[i].confidence = 7 => reg[i].id \notin Range(risky)
               /\ ( /\ reg[i].critical
                    /\ reg[i].confidence < 7
                    /\ reg[i].verification_status = Some("verified_false") ) =>
                      (reg[i].id \in Range(risky) /\ reg[i].id \in Range(falsified))

\* C32 witness: A2, critical with confidence 0.3, was declared and then invalidated,
\* and is listed as risky and as falsified; A1, declared with it, is in neither list
C32_Witness ==
    /\ last.op = "add_thought"
    /\ last.err.kind = "ok"
    /\ Keys(session.assumptions) = { A1, A2 }
    /\ Get(session.assumptions, A2).verification_status = Some("verified_false")
    /\ Get(session.assumptions, A2).confidence = 3
    /\ risky_assumptions(session) = << A2 >>
    /\ falsified_assumptions(session) = << A2 >>

---------------------------------------------------------------------------
(* Properties of two instances on one session (SpecContinue) *)

\* the instance that served the last request held the session before the call
HeldBefore == last.session_id \in DOMAIN last.pre_cache[last.service]

\* C33: an instance that holds a session serves a request from the session it holds,
\* whatever the record has become since; a successful request replaces the record by
\* the whole session of the instance that served it and changes no other file; and
\* whatever the other instance has done, each request handed to either instance runs
\* to its response or to the error of the request itself.
C33_LastSaverWritesItsOwnView ==
    /\ (LastIsProcessThought /\ HeldBefore) =>
           last.before = last.pre_cache[last.service][last.session_id]
    /\ (LastIsProcessThought /\ last.stage = "done") =>
           disk = Put(last.pre_disk, last.session_id, SavedFile(Current))
    /\ \A v \in Services, request \in ContinueRequests :
           process_thought(cache[v], disk, ThoughtRequest(request), Uuid).stage
               \in { "thought", "add_thought", "done" }

\* C33 witness: both instances held "s"; "b" appended a branch thought and saved it;
\* then "a" appended to the session it held and saved: the record is the session of
\* "a" and the branch thought of "b" is not in it
C33_Witness ==
    /\ LastIsProcessThought
    /\ last.stage = "done"
    /\ last.service = "a"
    /\ last.session_id = SessionS
    /\ HeldBefore
    /\ SessionS \in DOMAIN cache["b"]
    /\ branch_ids(cache["b"][SessionS]) = << << "b" >> >>
    /\ last.pre_disk[SessionS] = SavedFile(cache["b"][SessionS])
    /\ disk[SessionS] = SavedFile(cache["a"][SessionS])
    /\ disk[SessionS].data.branches = << >>
    /\ Len(disk[SessionS].data.thoughts) = Len(last.pre_disk[SessionS].data.thoughts)

---------------------------------------------------------------------------
(* Properties of the dangling-reference errors (SpecDangling) *)

\* C34: when add_thought fails on a dangling reference, the error names the number
\* the thought revises (for a marked revision whose number is absent) or else the
\* number it branches from; on an empty log it is the variant that says no thoughts
\* exist, and on a log with thoughts it is the variant that lists the thought numbers
\* of the log, each once, in ascending order.
C34_DanglingErrorNamesNumberAndLog ==
    (LastIsAddThought /\ last.err.kind \in DanglingKinds) =>
        LET t == last.thought
            before == { last.pre.thoughts[i].thought_number :
                          i \in 1..Len(last.pre.thoughts) }
            listed == last.err.available
            revision == /\ t.is_revision = Some(TRUE)
                        /\ t.revises_thought # None
                        /\ Val(t.revises_thought) \notin before
        IN  /\ last.err.number = IF revision THEN t.revises_thought
                                 ELSE t.branch_from_thought
            /\ Val(last.err.number) \notin before
            /\ IF last.pre.thoughts = << >>
               THEN /\ last.err.kind = (IF revision THEN "revise_no_thoughts"
                                        ELSE "branch_no_thoughts")
                    /\ listed = << >>
               ELSE /\ last.err.kind = (IF revision THEN "revise_not_found"
                                        ELSE "branch_not_found")
                    /\ Range(listed) = before
                    /\ \A i \in 1..(Len(listed) - 1) : listed[i] < listed[i + 1]

\* C34 witness: a log holding thought 2 and then thought 1 was given a branch from a
\* thought that is in neither; the error names it and lists 1, 2
C34_Witness ==
    /\ LastIsAddThought
    /\ last.err.kind = "branch_not_found"
    /\ Len(last.pre.thoughts) = 2
    /\ last.pre.thoughts[1].thought_number = 2
    /\ last.pre.thoughts[2].thought_number = 1
    /\ last.err.number = Some(MaxThoughts + 1)
    /\ last.err.available = << 1, 2 >>

---------------------------------------------------------------------------
(* Properties of the unresolved-reference list (SpecStore) *)

\* seq is the front part of longer
IsPrefix(seq, longer) ==
    Len(seq) <= Len(longer) /\ SubSeq(longer, 1, Len(seq)) = seq

\* C35 as stated: the unresolved-reference list only grows: a call of add_thought,
\* accepted or not, keeps every entry the list had, in place; and load_session of a
\* record save_session wrote returns a session whose list is the record's.
C35_UnresolvedEntriesAreKept ==
    /\ LastIsAddThought => IsPrefix(last.pre.unresolved_refs, session.unresolved_refs)
    /\ ( /\ last.op = "load_session"
         /\ last.session_id \in DOMAIN last.pre_disk
         /\ last.pre_disk[last.session_id].kind = "ok" ) =>
           /\ last.loaded # None
           /\ Val(last.loaded).unresolved_refs
                  = last.pre_disk[last.session_id].data.unresolved_refs

---------------------------------------------------------------------------
(* Properties of re-declared falsified assumptions (SpecLedger) *)

\* C36: when an accepted thought re-declares an id whose record is verified_false and
\* does not invalidate it, the record's verification_status becomes the one of the
\* thought's last declaration of the id, absent when that omits it, and the id is in
\* falsified_assumptions afterwards exactly when that declaration says verified_false.
C36_RedeclarationLiftsFalsification ==
    (LastIsAddThought /\ last.err.kind = "ok") =>
        \A i \in 1..Len(Decls) :
            ( /\ HasKey(last.pre.assumptions, Decls[i].id)
              /\ Get(last.pre.assumptions, Decls[i].id).verification_status
                     = Some("verified_false")
              /\ \A j \in (i + 1)..Len(Decls) : Decls[j].id # Decls[i].id
              /\ ~ InSeq(Decls[i].id, Invs) ) =>
                /\ Get(session.assumptions, Decls[i].id).verification_status
                       = Decls[i].verification_status
                /\ InSeq(Decls[i].id, falsified_assumptions(session))
                       <=> Decls[i].verification_status = Some("verified_false")

\* C36 witness: the first thought declared A1 and invalidated it; the second declared
\* A1 again with the same text and no status: A1 has no status now and is no longer
\* listed as falsified
C36_Witness ==
    /\ LastIsAddThought
    /\ last.err.kind = "ok"
    /\ Len(last.pre.thoughts) = 1
    /\ last.pre.thoughts[1].invalidates_assumptions = Some(<< A1 >>)
    /\ falsified_assumptions(last.pre) = << A1 >>
    /\ Decls = << A1_x >>
    /\ Invs = << >>
    /\ Get(session.assumptions, A1).verification_status = None
    /\ falsified_assumptions(session) = << >>

---------------------------------------------------------------------------
(* Properties of a log that holds a final thought (SpecNumbering) *)

\* the session with every logged thought marked as needing a next one
Reopened(s) ==
    [ s EXCEPT !.thoughts = [ i \in 1..Len(s.thoughts) |->
                                [ s.thoughts[i] EXCEPT !.next_thought_needed = TRUE ] ] ]

HoldsFinal(s) == \E i \in 1..Len(s.thoughts) : is_final(s.thoughts[i])

AboveEveryTotal(n, s) == \A i \in 1..Len(s.thoughts) : n > s.thoughts[i].total_thoughts

\* C37: a request to a session whose log holds a final thought ends as the same request
\* ends when no logged thought is final: same exception or same response, and the same
\* session afterwards apart from the final marks; and when the request carries no
\* list field and its thought number is above every total_thoughts in the log, the
\* thought is appended with that number and the larger of the requested total and
\* that number as its total.
C37_FinalThoughtClosesNothing ==
    (LastIsProcessThought /\ HoldsFinal(last.before)) =>
        /\ \E r \in { process_thought(
                          Put(last.pre_cache[last.service], last.session_id,
                              Reopened(last.before)),
                          last.pre_disk, ThoughtRequest(last.thought), Uuid) } :
               /\ r.stage = last.stage
               /\ r.err = last.err
               /\ r.response = last.response
               /\ Reopened(r.sessions[last.session_id]) = Reopened(Current)
        /\ ( /\ \A f \in ListFields : last.thought[f] = None
             /\ AboveEveryTotal(NumberOfLastRequest, last.before) ) =>
               /\ last.stage = "done"
               /\ Len(Current.thoughts) = Len(last.before.thoughts) + 1
               /\ Current.thoughts[Len(Current.thoughts)].thought_number
                      = NumberOfLastRequest
               /\ Current.thoughts[Len(Current.thoughts)].total_thoughts
                      = Max(last.thought.total_thoughts, NumberOfLastRequest)

\* C37 witness: the log held one thought, final, with total_thoughts 1; the request
\* for thought 2 was served and thought 2 is last in the log
C37_Witness ==
    /\ LastIsProcessThought
    /\ last.stage = "done"
    /\ Len(last.before.thoughts) = 1
    /\ is_final(last.before.thoughts[1])
    /\ last.before.thoughts[1].total_thoughts = 1
    /\ last.thought.thought_number = Some(2)
    /\ last.thought.total_thoughts = 1
    /\ Len(Current.thoughts) = 2
    /\ Current.thoughts[2].thought_number = 2
    /\ Current.thoughts[2].total_thoughts = 2

---------------------------------------------------------------------------
(* Properties of a long-lived and a fresh service (SpecLongLivedContinue) *)

\* C38: every request the long-lived instance serves, from its cache or from the
\* record, ends as it ends for an instance created for that request over the same
\* sessions directory: the same stage and exception, the same response, and the same
\* records afterwards, so the two agree on every request of a sequence.
C38_LongLivedAndFreshServiceAgree ==
    LastIsProcessThought =>
        \E r \in { process_thought(EmptyDict, last.pre_disk, ThoughtRequest(last.thought),
                                   Uuid) } :
            /\ r.stage = last.stage
            /\ r.err = last.err
            /\ r.response = last.response
            /\ r.files = disk

\* C38 witness: the instance served the third thought of "s" from its cache; the
\* response lists branch "b" and the assumption the record held from the start
C38_Witness ==
    /\ LastIsProcessThought
    /\ last.stage = "done"
    /\ last.session_id = SessionS
    /\ SessionS \in DOMAIN last.pre_cache[last.service]
    /\ last.response.thought_history_length = 3
    /\ last.response.branches = << << "b" >> >>
    /\ last.response.all_assumptions # << >>

---------------------------------------------------------------------------
(* Properties of a cached session whose record changes (SpecStale) *)

====
